---- MODULE Spec2Model ----
(***************************************************************************)
(* Model of src/main.py: the receipt page-height estimator                 *)
(* (PrescriptionSystem.calculate_page_height), the settings loader         *)
(* (Settings.load_settings) and the completion indexer                     *)
(* (SmartCompletionPanel.load_words_from_database).                        *)
(*                                                                         *)
(* Text.  A Python str is a sequence of characters; a character is a short *)
(* ASCII name.  " " and "\n" are whitespace, "x" and "y" are ordinary      *)
(* characters; CodePoint lists every character with its Unicode code       *)
(* point.                                                                  *)
(*                                                                         *)
(* Numbers.  The program computes lengths in Python floats; the model uses *)
(* exact fixed-point integers:                                             *)
(*   font_size      points                                                 *)
(*   line_spacing   1/20                                                   *)
(*   safety_margin  1/10                                                   *)
(*   margin_size    1/20 cm                                                *)
(*   empty_ratio    1/2                                                    *)
(*   base_line_height  1/72000 cm   ((fs/72)*2.54*ls = fs*127*ls20/72000)  *)
(*   content_height    1/360000 cm  (line counts are in fifths of a line)  *)
(*   total_height      1/720000 cm                                         *)
(***************************************************************************)
EXTENDS Integers, Sequences, FiniteSets, TLC

VARIABLES
    settings,           \* the Settings object (self.settings)
    diagnosis_entry,    \* text of the diagnosis Entry widget
    prescription_text,  \* text of the prescription Text widget ("1.0" .. "end-1c")
    usage_entry,        \* text of the usage Entry widget
    content_height,     \* calculate_page_height: local content_height at return
    page_height,        \* calculate_page_height: what the last call returned
    calls,              \* the last two calls of calculate_page_height, oldest first
    edits,              \* number of form edits made so far
    pc,                 \* "constructing" inside Settings.__init__, then "ready"
    settings_file,      \* what settings.json holds on disk
    rows,               \* the prescriptions table, in rowid order
    medicine_words,     \* load_words_from_database: its four Counters as they
    diagnosis_words,    \*   were at the end of the last scan, each a sequence
    prescription_phrases, \* of [word, count] in insertion order
    usage_words,
    categories,         \* self.categories[...]["words"], by category
    all_words,          \* self.all_words
    index_status,       \* "unbuilt", "built", or "failed" (the except branch ran)
    refreshes,          \* calls of load_words_from_database so far, up to MaxRefreshes
    name_entry,         \* text of the patient-name Entry widget
    flow,               \* what the last save, delete or reprint handler did
    page,               \* the widgets of the settings page
    enabled,            \* completion_panel.enabled (a BooleanVar)
    printer_combo,      \* the printer selected on the input page, "" for none
    default_printer,    \* the default printer of the system
    print_job,          \* what the last call of print_docx did
    receipt,            \* what the last call of generate_receipt_docx wrote
    now,                \* the current date, as datetime.now() gives it
    date_range          \* the start and end date entries of the query page

formVars == <<diagnosis_entry, prescription_text, usage_entry>>

estimateVars == <<content_height, page_height, calls>>

counterVars == <<medicine_words, diagnosis_words, prescription_phrases, usage_words>>

indexVars == <<rows, counterVars, categories, all_words, index_status, refreshes>>

flowVars == <<name_entry, flow>>

appVars == <<settings, formVars, estimateVars, edits, pc, settings_file>>

pageVars == <<page, enabled>>

printVars == <<printer_combo, default_printer, print_job, receipt>>

dateVars == <<now, date_range>>

deskVars == <<pageVars, printVars, dateVars>>

vars == <<appVars, indexVars, flowVars, deskVars>>

----------------------------------------------------------------------------
(* Bounds of the model *)

MaxLines == 20      \* most non-blank lines of a prescription body input
MaxTextLen == 37    \* most characters of a diagnosis / usage input
AddressLen == 18    \* characters of the clinic address when it is set
MaxEdits == 1       \* most form edits in one behaviour
MaxRows == 2        \* most rows of the prescriptions table
ManyUsages == 21    \* distinct usage texts of the long table
MaxRefreshes == 2   \* calls of load_words_from_database that are told apart
FirstYear == 2024   \* the years the current date is drawn from
LastYear == 2025

----------------------------------------------------------------------------
(* Python values and strings *)

Max(a, b) == IF a >= b THEN a ELSE b

Min(a, b) == IF a <= b THEN a ELSE b

Num(n) == [kind |-> "num", v |-> n]

IsNum(x) == x.kind = "num"

Whitespace == {" ", "\n"}

Rep(c, n) == [i \in 1..n |-> c]

RECURSIVE lstrip(_)
lstrip(s) == IF s # <<>> /\ Head(s) \in Whitespace THEN lstrip(Tail(s)) ELSE s

RECURSIVE rstrip(_)
rstrip(s) ==
    IF s # <<>> /\ s[Len(s)] \in Whitespace
    THEN rstrip(SubSeq(s, 1, Len(s) - 1))
    ELSE s

\* str.strip()
strip(s) == rstrip(lstrip(s))

\* str.split(sep) for a one-character separator: always at least one piece
RECURSIVE split(_, _)
split(s, sep) ==
    IF \E i \in 1..Len(s) : s[i] = sep
    THEN LET i == CHOOSE k \in 1..Len(s) :
                     s[k] = sep /\ \A j \in 1..(k - 1) : s[j] # sep
         IN <<SubSeq(s, 1, i - 1)>> \o split(SubSeq(s, i + 1, Len(s)), sep)
    ELSE <<s>>

----------------------------------------------------------------------------
(* Settings.__init__ *)

DefaultSettings ==
    [default_doctor |-> <<>>, default_phone |-> <<>>,
     smart_completion_enabled |-> TRUE,
     clinic_name |-> <<>>, clinic_address |-> <<>>,
     clinic_phone |-> <<>>, clinic_license |-> <<>>,
     font_size |-> Num(9), line_spacing |-> Num(17),
     safety_margin |-> Num(15), margin_size |-> Num(4),
     empty_ratio |-> Num(8)]

----------------------------------------------------------------------------
(* The settings page.  The text of a parameter box is the text of a whole  *)
(* number ("int"), of a number with a decimal point ("decimal"), both with  *)
(* their value in the parameter's unit, or anything else ("bad").            *)

\* str(x) of a settings value, as create_settings_page and cancel_settings
\* put it in a parameter box; font_size is kept as an int, the others as
\* floats
Str(key, x) ==
    IF x.kind \in {"num", "numstr"}
    THEN [kind |-> IF key = "font_size" THEN "int" ELSE "decimal", v |-> x.v]
    ELSE [kind |-> "bad", v |-> 0]

\* int(text) raises ValueError unless the text is that of a whole number
IntRaises(text) == text.kind # "int"

\* float(text) raises ValueError unless the text is that of a number
FloatTextRaises(text) == text.kind \notin {"int", "decimal"}

\* the widgets filled from the settings object s
PageOf(s) ==
    [smart_var |-> s.smart_completion_enabled,
     doctor_entry |-> s.default_doctor, phone_entry |-> s.default_phone,
     clinic_name_entry |-> s.clinic_name,
     clinic_address_entry |-> s.clinic_address,
     clinic_phone_entry |-> s.clinic_phone,
     clinic_license_entry |-> s.clinic_license,
     font_size_var |-> Str("font_size", s.font_size),
     line_spacing_var |-> Str("line_spacing", s.line_spacing),
     safety_margin_var |-> Str("safety_margin", s.safety_margin),
     margin_var |-> Str("margin_size", s.margin_size),
     empty_ratio_var |-> Str("empty_ratio", s.empty_ratio)]

\* before create_widgets has run
NoPage == [built |-> FALSE]

----------------------------------------------------------------------------
(* Settings.load_settings.  settings.json is absent, is not JSON            *)
(* ("corrupt"), is a JSON array, or is a JSON object: a function from the   *)
(* keys it has to their values.  A JSON value for a numeric key is a number *)
(* ("num"), a string that reads as a number ("numstr", v the number), any   *)
(* other string ("str") or null.                                            *)

NumericKeys == {"font_size", "line_spacing", "safety_margin", "margin_size", "empty_ratio"}

TextKeys == {"default_doctor", "default_phone", "clinic_name", "clinic_address",
             "clinic_phone", "clinic_license"}

\* dict.get(key, default)
Get(data, key, default) == IF key \in DOMAIN data THEN data[key] ELSE default

\* float(x) raises ValueError for a non-numeric string, TypeError for None
FloatRaises(x) == x.kind \notin {"num", "numstr"}

Float(x) == Num(x.v)

\* lines 58-72: the assignments before the float() of line 73
AssignedFrom(s, data) ==
    [s EXCEPT !.default_doctor = Get(data, "default_doctor", <<>>),
              !.default_phone = Get(data, "default_phone", <<>>),
              !.smart_completion_enabled = Get(data, "smart_completion_enabled", TRUE),
              !.clinic_name = Get(data, "clinic_name", <<>>),
              !.clinic_address = Get(data, "clinic_address", <<>>),
              !.clinic_phone = Get(data, "clinic_phone", <<>>),
              !.clinic_license = Get(data, "clinic_license", <<>>),
              !.font_size = Get(data, "font_size", Num(9)),
              !.line_spacing = Get(data, "line_spacing", Num(17)),
              !.safety_margin = Get(data, "safety_margin", Num(15)),
              !.margin_size = Get(data, "margin_size", Num(4))]

\* the settings after load_settings: the bare except leaves whatever was
\* assigned before the statement that raised
LoadedSettings(s, file) ==
    IF file.kind = "absent" THEN s
    ELSE IF file.kind # "object" THEN s
    ELSE LET a == AssignedFrom(s, file.data)
             e == Get(file.data, "empty_ratio", Num(8))
         IN IF FloatRaises(e) THEN a ELSE [a EXCEPT !.empty_ratio = Float(e)]

load_settings ==
    /\ pc = "constructing"
    /\ pc' = "ready"
    /\ settings' = LoadedSettings(settings, settings_file)
    \* the constructor goes on to build the settings page and the panel
    /\ page' = PageOf(settings')
    /\ enabled' = settings'.smart_completion_enabled
    /\ UNCHANGED <<formVars, estimateVars, edits, settings_file, indexVars, flowVars,
                   printVars, dateVars>>

----------------------------------------------------------------------------
(* PrescriptionSystem.calculate_page_height *)

max_prescription_lines == 15

DiagnosisWidth == 18

PrescriptionWidth == 16

\* 29.7 cm in units of 1/720000 cm
max_height == 297 * 72000

\* mutant: the points-to-inches division done on integers
base_line_height_IntegerDivision(s) ==
    (s.font_size.v \div 72) * 127 * s.line_spacing.v

\* (font_size / 72) * 2.54 * line_spacing, in 1/72000 cm
base_line_height(s) == s.font_size.v * 127 * s.line_spacing.v

\* mutant: line_count is incremented for blank lines too
RECURSIVE PrescriptionLoop_CountsBlankLines(_, _, _)
PrescriptionLoop_CountsBlankLines(lines, line_count, base) ==
    IF lines = <<>> THEN 0
    ELSE LET line == Head(lines) IN
         IF line_count + 1 > max_prescription_lines THEN 0
         ELSE (IF strip(line) # <<>>
               THEN base * 5 * Max(1, Len(strip(line)) \div PrescriptionWidth + 1)
               ELSE 0)
              + PrescriptionLoop_CountsBlankLines(Tail(lines), line_count + 1, base)

\* the for loop over prescription_lines: the height it adds to content_height
RECURSIVE PrescriptionLoop(_, _, _)
PrescriptionLoop(lines, line_count, base) ==
    IF lines = <<>> THEN 0
    ELSE LET line == Head(lines) IN
         IF strip(line) # <<>>
         THEN IF line_count + 1 > max_prescription_lines
              THEN 0
              ELSE base * 5 * Max(1, Len(strip(line)) \div PrescriptionWidth + 1)
                   + PrescriptionLoop(Tail(lines), line_count + 1, base)
         ELSE PrescriptionLoop(Tail(lines), line_count, base)

\* mutant: a body over the cap is not measured at all
PrescriptionHeight_DropsLongBody(text, base) ==
    LET lines == split(strip(text), "\n")
        n == Cardinality({i \in 1..Len(lines) : strip(lines[i]) # <<>>})
    IN IF strip(text) # <<>> /\ n <= max_prescription_lines
       THEN PrescriptionLoop(lines, 0, base)
       ELSE 0

PrescriptionHeight(text, base) ==
    LET prescription_content == strip(text) IN
    IF prescription_content # <<>>
    THEN PrescriptionLoop(split(prescription_content, "\n"), 0, base)
    ELSE 0

\* height of a wrapped one-paragraph field (diagnosis, usage)
FieldHeight(text, base) ==
    IF strip(text) # <<>>
    THEN base * 5 * Max(1, Len(strip(text)) \div DiagnosisWidth + 1)
    ELSE 0

\* the local content_height when the function reaches line 1280, in 1/360000 cm
ContentHeight(s, diagnosis, prescription, usage) ==
    LET base == base_line_height(s) IN
      base * 6
    + (IF s.clinic_address # <<>>
       THEN base * 5 * Max(1, Len(s.clinic_address) \div DiagnosisWidth + 1)
       ELSE 0)
    + (IF s.clinic_phone # <<>> THEN base * 5 ELSE 0)
    + base * 5
    + base * 3
    + base * 5 * 4
    + base * 3
    + FieldHeight(diagnosis, base)
    + base * 5
    + PrescriptionHeight(prescription, base)
    + FieldHeight(usage, base)
    + base * 3
    + (IF s.default_doctor # <<>> THEN base * 5 ELSE 0)
    + (IF s.default_phone # <<>> THEN base * 5 ELSE 0)
    + (IF s.clinic_license # <<>> THEN base * 5 ELSE 0)
    + base * 3

\* mutant: the margins are added before the empty ratio is applied
RawTotalHeight_ScalesMargins(s, content) ==
    (content + s.margin_size.v * 2 * 18000) * s.empty_ratio.v

\* total_height before the clamp, in 1/720000 cm
RawTotalHeight(s, content) ==
    content * s.empty_ratio.v + s.margin_size.v * 2 * 36000

\* mutant: no clamp
TotalHeight_Unclamped(s, content) == RawTotalHeight(s, content)

\* lines 1288-1293: the clamp and the return value
TotalHeight(s, content) ==
    IF RawTotalHeight(s, content) > max_height
    THEN max_height
    ELSE RawTotalHeight(s, content)

\* arithmetic on a setting that is not a number raises TypeError
EstimatorRaises(s) ==
    \/ ~IsNum(s.font_size)
    \/ ~IsNum(s.line_spacing)
    \/ ~IsNum(s.empty_ratio)
    \/ ~IsNum(s.margin_size)

\* a call on the settings and the form texts d, p, u
CallRecordOn(d, p, u, res) ==
    [settings |-> settings, diagnosis |-> d, prescription |-> p, usage |-> u,
     result |-> res]

CallRecord(res) == CallRecordOn(diagnosis_entry, prescription_text, usage_entry, res)

RememberOn(d, p, u, res) ==
    IF Len(calls) < 2
    THEN Append(calls, CallRecordOn(d, p, u, res))
    ELSE <<calls[2], CallRecordOn(d, p, u, res)>>

Remember(res) == RememberOn(diagnosis_entry, prescription_text, usage_entry, res)

\* mutant: the stripped prescription is written back to the Text widget
calculate_page_height_WritesBack ==
    /\ pc = "ready"
    /\ content_height' = ContentHeight(settings, diagnosis_entry,
                                       prescription_text, usage_entry)
    /\ page_height' = [kind |-> "ok", v |-> TotalHeight(settings, content_height')]
    /\ calls' = Remember(page_height')
    /\ prescription_text' = strip(prescription_text)
    /\ UNCHANGED <<settings, diagnosis_entry, usage_entry, edits, pc, settings_file,
                   indexVars, flowVars, deskVars>>

\* the body of calculate_page_height on the current settings, with the form
\* widgets holding d, p, u
EstimateOn(d, p, u) ==
    /\ IF EstimatorRaises(settings)
       THEN /\ content_height' = 0
            /\ page_height' = [kind |-> "TypeError", v |-> 0]
       ELSE LET content == ContentHeight(settings, d, p, u)
            IN /\ content_height' = content
               /\ page_height' = [kind |-> "ok", v |-> TotalHeight(settings, content)]
    /\ calls' = RememberOn(d, p, u, page_height')

\* the same on the form as it is
Estimate == EstimateOn(diagnosis_entry, prescription_text, usage_entry)

calculate_page_height ==
    /\ pc = "ready"
    /\ Estimate
    /\ UNCHANGED <<settings, formVars, edits, pc, settings_file, indexVars, flowVars, deskVars>>

----------------------------------------------------------------------------
(* The user types one more line at the end of the prescription Text widget *)

LineInputs == {<<"x">>, Rep("x", PrescriptionWidth), <<" ">>}

append_prescription_line(line) ==
    /\ pc = "ready"
    /\ edits < MaxEdits
    /\ edits' = edits + 1
    /\ prescription_text' =
           IF prescription_text = <<>> THEN line
           ELSE prescription_text \o <<"\n">> \o line
    /\ UNCHANGED <<settings, diagnosis_entry, usage_entry, estimateVars,
                   pc, settings_file, indexVars, flowVars, deskVars>>

----------------------------------------------------------------------------
(* SmartCompletionPanel.load_words_from_database *)

\* Unicode code points of the characters of the model
CodePoint(c) ==
    CASE c = "\n" -> 10        [] c = " " -> 32         [] c = "," -> 44
      [] c = "." -> 46         [] c = "0" -> 48         [] c = "1" -> 49
      [] c = "5" -> 53         [] c = ":" -> 58         [] c = ";" -> 59
      [] c = "[" -> 91         [] c = "]" -> 93         [] c = "g" -> 103
      [] c = "x" -> 120        [] c = "y" -> 121
      [] c = "dun" -> 12289         \* U+3001 ideographic (enumeration) comma
      [] c = "fwstop" -> 12290      \* U+3002 ideographic full stop
      [] c = "lcorner" -> 12304     \* U+3010
      [] c = "rcorner" -> 12305     \* U+3011
      [] c = "liang" -> 20004       \* U+4E24 unit
      [] c = "ke" -> 20811          \* U+514B unit (gram)
      [] c = "bao" -> 21253         \* U+5305 unit
      [] c = "sheng" -> 21319       \* U+5347 unit
      [] c = "jiang" -> 23004       \* U+59DC
      [] c = "gui" -> 24402         \* U+5F52
      [] c = "dang" -> 24403        \* U+5F53
      [] c = "shi" -> 28287         \* U+6E7F
      [] c = "pian" -> 29255        \* U+7247 unit
      [] c = "cheng" -> 30427       \* U+76DB
      [] c = "li" -> 31890          \* U+7C92 unit
      [] c = "pi" -> 33086          \* U+813E
      [] c = "qi" -> 33450          \* U+82AA
      [] c = "xu" -> 34394          \* U+865A
      [] c = "qian" -> 38065        \* U+94B1 unit
      [] c = "huang" -> 40644       \* U+9EC4
      [] c = "fwcomma" -> 65292     \* U+FF0C fullwidth comma
      [] c = "fwcolon" -> 65306     \* U+FF1A fullwidth colon
      [] c = "fwsemicolon" -> 65307 \* U+FF1B fullwidth semicolon

\* \d
Digits == {"0", "1", "5"}

\* the character class of line 278
UnitChars == {"ke", "g", "li", "pian", "bao", "qian", "liang", "sheng"}

\* the character class of line 274
MedicineDelimiters == {"fwcomma", ",", "dun"} \cup Whitespace

\* the character class of line 264
DiagnosisDelimiters ==
    {"fwcomma", ",", "fwstop", "dun", "fwsemicolon", "fwcolon", ":",
     "[", "]", "lcorner", "rcorner"} \cup Whitespace

\* re.split(r'[D]+', s): the pieces between maximal runs of characters of D
RECURSIVE re_split(_, _)
re_split(s, D) ==
    IF \A i \in 1..Len(s) : s[i] \notin D THEN <<s>>
    ELSE LET i == CHOOSE k \in 1..Len(s) :
                     s[k] \in D /\ \A j \in 1..(k - 1) : s[j] \notin D
             j == CHOOSE k \in (i + 1)..(Len(s) + 1) :
                     /\ k = Len(s) + 1 \/ s[k] \notin D
                     /\ \A m \in i..(k - 1) : s[m] \in D
         IN <<SubSeq(s, 1, i - 1)>> \o re_split(SubSeq(s, j, Len(s)), D)

\* re.sub(r'[C].*$', '', s) on a text without newlines: s up to its first
\* character of C
RECURSIVE CutFrom(_, _)
CutFrom(s, C) ==
    IF s = <<>> \/ Head(s) \in C THEN <<>>
    ELSE <<Head(s)>> \o CutFrom(Tail(s), C)

\* counter[w] += 1
Incr(counter, w) ==
    IF \E i \in 1..Len(counter) : counter[i].word = w
    THEN LET i == CHOOSE k \in 1..Len(counter) : counter[k].word = w
         IN [counter EXCEPT ![i].count = @ + 1]
    ELSE Append(counter, [word |-> w, count |-> 1])

\* mutant: the unit suffix is not removed
medicine_part_KeepsUnit(part) == CutFrom(strip(part), Digits)

\* lines 276-278
medicine_part(part) == CutFrom(CutFrom(strip(part), Digits), UnitChars)

\* lines 275-280
RECURSIVE CountParts(_, _)
CountParts(parts, counter) ==
    IF parts = <<>> THEN counter
    ELSE LET part == medicine_part(Head(parts))
         IN CountParts(Tail(parts),
                       IF 2 <= Len(part) /\ Len(part) <= 6
                       THEN Incr(counter, part)
                       ELSE counter)

\* lines 271-282; acc holds the four Counters
RECURSIVE CountLines(_, _)
CountLines(lines, acc) ==
    IF lines = <<>> THEN acc
    ELSE LET line == strip(Head(lines))
         IN IF line # <<>>
            THEN CountLines(Tail(lines),
                   [acc EXCEPT
                      !.medicine = CountParts(re_split(line, MedicineDelimiters), @),
                      !.phrases = IF Len(line) >= 4 THEN Incr(@, line) ELSE @])
            ELSE CountLines(Tail(lines), acc)

\* lines 265-267
RECURSIVE CountDiagnosis(_, _)
CountDiagnosis(words, counter) ==
    IF words = <<>> THEN counter
    ELSE CountDiagnosis(Tail(words),
                        IF Len(strip(Head(words))) >= 2
                        THEN Incr(counter, strip(Head(words)))
                        ELSE counter)

\* mutant: the usage is counted without the test of line 283
ScanRow_CountsEmptyUsage(row, acc) ==
    LET a1 == IF row.diagnosis # <<>>
              THEN [acc EXCEPT !.diagnosis =
                       CountDiagnosis(re_split(row.diagnosis, DiagnosisDelimiters), @)]
              ELSE acc
        a2 == IF row.prescription # <<>>
              THEN CountLines(split(row.prescription, "\n"), a1)
              ELSE a1
    IN [a2 EXCEPT !.usage = Incr(@, row.usage)]

\* lines 262-284: one row of the scan
ScanRow(row, acc) ==
    LET a1 == IF row.diagnosis # <<>>
              THEN [acc EXCEPT !.diagnosis =
                       CountDiagnosis(re_split(row.diagnosis, DiagnosisDelimiters), @)]
              ELSE acc
        a2 == IF row.prescription # <<>>
              THEN CountLines(split(row.prescription, "\n"), a1)
              ELSE a1
    IN IF row.usage # <<>>
       THEN [a2 EXCEPT !.usage = Incr(@, row.usage)]
       ELSE a2

RECURSIVE ScanRows(_, _)
\* line 261: the loop over the rows, first to last; the Counters after a row
\* are computed (first = first) before the next row is scanned
ScanRows(rs, acc) ==
    IF rs = <<>> THEN acc
    ELSE LET first == ScanRow(Head(rs), acc)
         IN IF first = first THEN ScanRows(Tail(rs), first) ELSE first

EmptyCounters == [medicine |-> <<>>, diagnosis |-> <<>>, phrases |-> <<>>, usage |-> <<>>]

\* mutant: among equal counts the last inserted comes first
Ranked_LastOfTiesFirst(counter) ==
    LET n == Len(counter)
        before(j, i) == \/ counter[j].count > counter[i].count
                        \/ counter[j].count = counter[i].count /\ j > i
    IN [k \in 1..n |-> counter[CHOOSE i \in 1..n :
                               1 + Cardinality({j \in 1..n : before(j, i)}) = k]]

\* the entries by descending count, equal counts in insertion order
Ranked(counter) ==
    LET n == Len(counter)
        before(j, i) == \/ counter[j].count > counter[i].count
                        \/ counter[j].count = counter[i].count /\ j < i
    IN [k \in 1..n |-> counter[CHOOSE i \in 1..n :
                               1 + Cardinality({j \in 1..n : before(j, i)}) = k]]

\* [w for w, c in counter.most_common(n)]
most_common(counter, n) ==
    LET ranked == Ranked(counter)
    IN [i \in 1..Min(n, Len(ranked)) |-> ranked[i].word]

\* list(counter.keys())
Keys(counter) == {counter[i].word : i \in 1..Len(counter)}

\* a < b for Python strings: by code point, a proper prefix first
StrLess(a, b) ==
    \E k \in 1..(Min(Len(a), Len(b)) + 1) :
        /\ \A j \in 1..(k - 1) : a[j] = b[j]
        /\ \/ k > Len(a) /\ k <= Len(b)
           \/ k <= Len(a) /\ k <= Len(b) /\ CodePoint(a[k]) < CodePoint(b[k])

\* list(counter.keys()): the keys in insertion order
KeyList(counter) == [i \in 1..Len(counter) |-> counter[i].word]

\* the elements of list, each at its first place
Distinct(list) ==
    LET firsts == {i \in 1..Len(list) : \A j \in 1..(i - 1) : list[j] # list[i]}
        before(j, i) == j \in firsts /\ j < i
    IN [k \in 1..Cardinality(firsts) |->
           list[CHOOSE i \in firsts :
                    1 + Cardinality({j \in 1..Len(list) : before(j, i)}) = k]]

Reversed(list) == [i \in 1..Len(list) |-> list[Len(list) + 1 - i]]

\* set(list) as sorted() receives it: the distinct elements in an order the
\* language leaves open (string hashes differ from process to process).
\* Three orders stand for them: first places, the reverse, and the first
\* element moved to the end.
SetOrders(list) ==
    LET d == Distinct(list)
    IN {d, Reversed(d), IF d = <<>> THEN d ELSE Append(Tail(d), Head(d))}

\* mutant: the elements are left in the order they arrive in
sorted_AsReceived(list) == list

\* sorted(list) for a list of strings: ascending, equal elements in the
\* order they arrive in
sorted(list) ==
    LET n == Len(list)
        before(j, i) == \/ StrLess(list[j], list[i])
                        \/ list[j] = list[i] /\ j < i
    IN [k \in 1..n |-> list[CHOOSE i \in 1..n :
                            1 + Cardinality({j \in 1..n : before(j, i)}) = k]]

\* the categories are named, in the source's order: medicines, diagnoses,
\* prescriptions (phrases), usages, all terms
NoWords == [medicines |-> <<>>, diagnoses |-> <<>>, phrases |-> <<>>,
            usages |-> <<>>, all |-> <<>>]

\* no handler has run yet
NoFlow ==
    [op |-> "none", stored |-> FALSE, refresh |-> "none", docx |-> FALSE,
     asked |-> "none", message |-> "none", cleared |-> FALSE, listed |-> FALSE,
     filled |-> FALSE]

\* the input page as create_input_page leaves the name field
FlowIdle ==
    /\ name_entry = <<>>
    /\ flow = NoFlow

\* print_docx has not been called
NoPrint ==
    [called |-> FALSE, printer_name |-> "", current_printer |-> "",
     switched |-> FALSE, after |-> "", tried |-> <<>>, results |-> <<>>,
     success |-> FALSE, error |-> FALSE, opened |-> "none"]

\* generate_receipt_docx has written nothing
NoReceipt == [made |-> FALSE, docx |-> <<>>, txt |-> <<>>]

\* the date entries of the query page as no quick-range button has set them
NoRange == [status |-> "none", start_date |-> <<0, 0, 0>>, end_date |-> <<0, 0, 0>>]

\* the printers of the system
Printers == {"pos58", "office"}

\* no printer selected, nothing printed or generated, no date range asked for
PrintIdle ==
    /\ printer_combo = ""
    /\ default_printer = "office"
    /\ print_job = NoPrint
    /\ receipt = NoReceipt
    /\ now = <<2025, 1, 15>>
    /\ date_range = NoRange

\* the settings page and the panel as built from the settings (lines 178,
\* 475-550)
DeskIdle ==
    /\ page = PageOf(settings)
    /\ enabled = settings.smart_completion_enabled
    /\ PrintIdle

\* a SmartCompletionPanel before its first load_words_from_database
IndexUnbuilt ==
    /\ medicine_words = <<>>
    /\ diagnosis_words = <<>>
    /\ prescription_phrases = <<>>
    /\ usage_words = <<>>
    /\ categories = NoWords
    /\ all_words = <<>>
    /\ index_status = "unbuilt"
    /\ refreshes = 0

\* mutant: the phrase table's keys join the union
AllWordsOf_WithPhrases(acc) ==
    KeyList(acc.medicine) \o KeyList(acc.diagnosis) \o KeyList(acc.usage)
        \o KeyList(acc.phrases)

\* line 290: the local all_words
AllWordsOf(acc) ==
    KeyList(acc.medicine) \o KeyList(acc.diagnosis) \o KeyList(acc.usage)

\* one more call of load_words_from_database
Counted(n) == Min(n + 1, MaxRefreshes)

\* lines 286-294, after a scan that left the Counters acc, with the sorted
\* union of line 291
Publish(acc, union) ==
    /\ medicine_words' = acc.medicine
    /\ diagnosis_words' = acc.diagnosis
    /\ prescription_phrases' = acc.phrases
    /\ usage_words' = acc.usage
    /\ categories' = [medicines |-> most_common(acc.medicine, 100),
                      diagnoses |-> most_common(acc.diagnosis, 50),
                      phrases |-> most_common(acc.phrases, 30),
                      usages |-> most_common(acc.usage, 20),
                      all |-> union]
    /\ all_words' = union
    /\ index_status' = "built"

\* load_words_from_database with the prescriptions table holding `table`
Reload(table) ==
    /\ refreshes' = Counted(refreshes)
    /\ \/ \* the connection or the SELECT raises: line 248 has run, the rest has not
          /\ all_words' = <<>>
          /\ index_status' = "failed"
          /\ UNCHANGED <<counterVars, categories>>
       \/ \E acc \in {ScanRows(table, EmptyCounters)} :
             \* sorted() receives the set in one of its orders
             \E union \in {sorted(order) : order \in SetOrders(AllWordsOf(acc))} :
                Publish(acc, union)

\* the refresh button, line 193
load_words_from_database ==
    /\ Reload(rows)
    /\ UNCHANGED <<appVars, rows, flowVars, deskVars>>

----------------------------------------------------------------------------
(* The save and delete handlers of PrescriptionSystem.  A handler is one    *)
(* step; flow records what it did: whether the INSERT or DELETE was         *)
(* committed, how the vocabulary refresh ended ("built" or "failed"),       *)
(* whether a receipt document was generated, the message box shown last,    *)
(* whether the form was cleared and whether the record list was reloaded.   *)

\* the usage Entry of a fresh form holds a default text of 16 characters
DefaultUsage == Rep("x", 16)

\* mutant: the name is not tested
validate_input_IgnoresName == strip(prescription_text) # <<>>

\* lines 940-951: True when neither warning is shown
validate_input == strip(name_entry) # <<>> /\ strip(prescription_text) # <<>>

\* mutant: the usage is stored as typed
FormRow_UsageAsTyped ==
    [patient_name |-> strip(name_entry), diagnosis |-> strip(diagnosis_entry),
     prescription |-> strip(prescription_text), usage |-> usage_entry,
     doctor |-> settings.default_doctor, doctor_phone |-> settings.default_phone]

\* lines 958-962: the columns of the row save_to_database inserts that a
\* later scan or reprint reads, and the doctor's phone
FormRow ==
    [patient_name |-> strip(name_entry), diagnosis |-> strip(diagnosis_entry),
     prescription |-> strip(prescription_text), usage |-> strip(usage_entry),
     doctor |-> settings.default_doctor, doctor_phone |-> settings.default_phone]

\* lines 1414-1428
clear_form ==
    /\ name_entry' = <<>>
    /\ diagnosis_entry' = <<>>
    /\ prescription_text' = <<>>
    /\ usage_entry' = DefaultUsage

\* mutant: the vocabulary is rebuilt before the handler returns
Refused_Reloads(op, box) ==
    /\ flow' = [NoFlow EXCEPT !.op = op, !.message = box]
    /\ Reload(rows)
    /\ UNCHANGED <<appVars, rows, name_entry, deskVars>>

\* a handler that returns after a warning or an error box, nothing written
Refused(op, box) ==
    /\ flow' = [NoFlow EXCEPT !.op = op, !.message = box]
    /\ UNCHANGED <<appVars, indexVars, name_entry, deskVars>>

\* mutant: the row is committed but the vocabulary is not reloaded
Committed_NoReload(table) ==
    /\ rows' = table
    /\ UNCHANGED <<counterVars, categories, all_words, index_status, refreshes>>

\* the INSERT or DELETE is committed, then load_words_from_database runs
\* (lines 921-922, 929-930, 1772-1775)
Committed(table) ==
    /\ rows' = table
    /\ Reload(table)

\* mutant: an exception of the refresh leaves the handler
save_only_RefreshRaises ==
    /\ pc = "ready"
    /\ IF ~validate_input
       THEN Refused("save_only", "warning")
       ELSE \/ Refused("save_only", "error")
            \/ /\ Len(rows) < MaxRows
               /\ Committed(Append(rows, FormRow))
               /\ IF index_status' = "failed"
                  THEN /\ flow' = [NoFlow EXCEPT !.op = "save_only", !.stored = TRUE,
                                                 !.refresh = "failed"]
                       /\ UNCHANGED <<formVars, name_entry>>
                  ELSE /\ clear_form
                       /\ flow' = [NoFlow EXCEPT !.op = "save_only", !.stored = TRUE,
                                                 !.refresh = index_status',
                                                 !.message = "saved", !.cleared = TRUE]
               /\ UNCHANGED <<settings, estimateVars, edits, pc, settings_file, deskVars>>

\* lines 918-924
save_only ==
    /\ pc = "ready"
    /\ IF ~validate_input
       THEN Refused("save_only", "warning")
       ELSE \/ \* save_to_database shows the error and returns False
               Refused("save_only", "error")
            \/ /\ Len(rows) < MaxRows
               /\ Committed(Append(rows, FormRow))
               /\ clear_form
               /\ flow' = [NoFlow EXCEPT !.op = "save_only", !.stored = TRUE,
                                         !.refresh = index_status',
                                         !.message = "saved", !.cleared = TRUE]
               /\ UNCHANGED <<settings, estimateVars, edits, pc, settings_file, deskVars>>

\* a paragraph of the document, or a line of the text file: what it is and
\* the text it carries after its label
Para(kind, text) == [kind |-> kind, text |-> text]

\* the clinic name printed when none is configured (ten characters)
DefaultClinicName == Rep("x", 10)

RECURSIVE receipt_lines(_, _)
\* lines 1123-1131 (and 1317-1325): the non-blank lines, stripped, up to
\* max_prescription_lines of them, then the truncation marker
receipt_lines(lines, line_count) ==
    IF lines = <<>> THEN <<>>
    ELSE IF strip(Head(lines)) = <<>> THEN receipt_lines(Tail(lines), line_count)
    ELSE IF line_count + 1 > max_prescription_lines THEN <<Para("marker", <<>>)>>
    ELSE <<Para("line", strip(Head(lines)))>>
         \o receipt_lines(Tail(lines), line_count + 1)

\* lines 1120-1131
receipt_body(prescription) ==
    LET prescription_content == strip(prescription)
    IN IF prescription_content # <<>>
       THEN receipt_lines(split(prescription_content, "\n"), 0)
       ELSE <<>>

\* a paragraph that is written only when its text is not empty
Optional(kind, text) == IF text # <<>> THEN <<Para(kind, text)>> ELSE <<>>

\* lines 1078-1081 and 1305-1308: the patient block
patient_lines(name) ==
    <<Para("name", strip(name)), Para("gender and age", <<>>),
      Para("phone", <<>>), Para("date", <<>>)>>

\* lines 1016-1171: the paragraphs generate_receipt_docx adds, first to last
receipt_docx(s, name, diagnosis, prescription, usage) ==
       <<Para("clinic name",
              IF s.clinic_name # <<>> THEN s.clinic_name ELSE DefaultClinicName)>>
    \o Optional("clinic address", s.clinic_address)
    \o Optional("clinic phone", s.clinic_phone)
    \o <<Para("subtitle", <<>>), Para("rule", <<>>)>>
    \o patient_lines(name)
    \o <<Para("rule", <<>>)>>
    \o Optional("diagnosis", strip(diagnosis))
    \o <<Para("prescription label", <<>>)>>
    \o receipt_body(prescription)
    \o Optional("usage", strip(usage))
    \o <<Para("rule", <<>>)>>
    \o Optional("doctor", s.default_doctor)
    \o Optional("doctor phone", s.default_phone)
    \o Optional("license", s.clinic_license)
    \o <<Para("rule", <<>>)>>

\* lines 1295-1345: the lines generate_receipt_text joins, first to last
generate_receipt_text(s, name, diagnosis, prescription, usage) ==
       <<Para("rule", <<>>),
         Para("clinic name",
              IF s.clinic_name # <<>> THEN s.clinic_name ELSE DefaultClinicName),
         Para("subtitle", <<>>), Para("rule", <<>>)>>
    \o patient_lines(name)
    \o <<Para("rule", <<>>)>>
    \o Optional("diagnosis", strip(diagnosis))
    \o <<Para("blank", <<>>), Para("prescription label", <<>>)>>
    \o receipt_body(prescription)
    \o <<Para("blank", <<>>)>>
    \o Optional("usage", strip(usage))
    \o <<Para("rule", <<>>)>>
    \o Optional("doctor", s.default_doctor)
    \o Optional("doctor phone", s.default_phone)
    \o Optional("license", s.clinic_license)
    \o <<Para("rule", <<>>)>>

\* generate_receipt_docx, lines 970-1194, with the form widgets holding name,
\* d, p, u: it returns a file name (made) or shows an error and returns None;
\* calculate_page_height runs at line 993 unless an earlier step has failed,
\* and it or a later step may raise; the text file is written after the
\* document (lines 1182-1187)
generate_receipt_docx(made, name, d, p, u) ==
    /\ \/ /\ ~made
          /\ UNCHANGED estimateVars
       \/ /\ EstimateOn(d, p, u)
          /\ made => page_height'.kind = "ok"
    /\ IF made
       THEN receipt' = [made |-> TRUE,
                        docx |-> receipt_docx(settings, name, d, p, u),
                        txt |-> generate_receipt_text(settings, name, d, p, u)]
       ELSE receipt' = NoReceipt

\* mutant: the default printer is put back only after a print that worked
Method1_RestoresAfterSuccessOnly(printer_name, current) ==
    { [switched |-> FALSE, current_printer |-> "", success |-> FALSE, after |-> current],
      [switched |-> FALSE, current_printer |-> current, success |-> FALSE, after |-> current],
      [switched |-> TRUE, current_printer |-> current, success |-> FALSE,
       after |-> printer_name],
      [switched |-> TRUE, current_printer |-> current, success |-> TRUE, after |-> current] }

\* lines 1354-1374, the first method, with `current` the default printer of
\* the system: GetDefaultPrinter raises; or SetDefaultPrinter(printer_name)
\* raises; or the default is switched and os.startfile(.., "print") raises;
\* or it is switched and the file is sent.  The finally clause puts
\* current_printer back on every path that has read it; that call, made with
\* the name just read from the system, is taken to succeed.
Method1(printer_name, current) ==
    { [switched |-> FALSE, current_printer |-> "", success |-> FALSE, after |-> current],
      [switched |-> FALSE, current_printer |-> current, success |-> FALSE, after |-> current],
      [switched |-> TRUE, current_printer |-> current, success |-> FALSE, after |-> current],
      [switched |-> TRUE, current_printer |-> current, success |-> TRUE, after |-> current] }

\* mutant: the file is opened without the error box
Fallback_Silent(job) ==
    {[job EXCEPT !.opened = o] : o \in {"opened", "failed"}}

\* lines 1407-1412: the error box, then the file is opened; a failure to open
\* it is passed over
Fallback(job) ==
    {[job EXCEPT !.error = TRUE, !.opened = o] : o \in {"opened", "failed"}}

\* lines 1347-1412: what a call of print_docx can do with printer_name
\* selected and `current` the default printer.  powershell and shell_execute
\* say whether the second and the third method work when they are run.
PrintOutcomes(printer_name, current) ==
    IF printer_name # ""
    THEN UNION { UNION { UNION {
            LET try2 == ~m1.success
                success2 == m1.success \/ (try2 /\ powershell)
                try3 == ~success2
                success3 == success2 \/ (try3 /\ shell_execute)
                job == [called |-> TRUE, printer_name |-> printer_name,
                        current_printer |-> m1.current_printer,
                        switched |-> m1.switched, after |-> m1.after,
                        tried |-> <<"default printer">>
                                  \o (IF try2 THEN <<"powershell">> ELSE <<>>)
                                  \o (IF try3 THEN <<"shell execute">> ELSE <<>>),
                        results |-> <<m1.success>>
                                    \o (IF try2 THEN <<powershell>> ELSE <<>>)
                                    \o (IF try3 THEN <<shell_execute>> ELSE <<>>),
                        success |-> success3, error |-> FALSE, opened |-> "none"]
            IN IF success3 THEN {job} ELSE Fallback(job)
          : shell_execute \in BOOLEAN } : powershell \in BOOLEAN }
          : m1 \in Method1(printer_name, current) }
    ELSE UNION {
            LET job == [called |-> TRUE, printer_name |-> printer_name,
                        current_printer |-> "", switched |-> FALSE, after |-> current,
                        tried |-> <<"startfile">>, results |-> <<startfile>>,
                        success |-> startfile, error |-> FALSE, opened |-> "none"]
            IN IF startfile THEN {job} ELSE Fallback(job)
          : startfile \in BOOLEAN }

\* print_docx(docx_file)
print_docx ==
    \E job \in PrintOutcomes(printer_combo, default_printer) :
       /\ print_job' = job
       /\ default_printer' = job.after

\* the question whether to print, and print_docx after the answer yes
\* (lines 933-934, 1718-1719, 1754-1755)
ask_and_print(answer) ==
    IF answer = "yes"
    THEN print_docx
    ELSE /\ print_job' = NoPrint
         /\ UNCHANGED default_printer

\* no document was generated: nothing is asked and nothing is printed
NotPrinted ==
    /\ print_job' = NoPrint
    /\ UNCHANGED default_printer

\* lines 926-938
save_and_print ==
    /\ pc = "ready"
    /\ IF ~validate_input
       THEN Refused("save_and_print", "warning")
       ELSE \/ Refused("save_and_print", "error")
            \/ /\ Len(rows) < MaxRows
               /\ Committed(Append(rows, FormRow))
               /\ \E made \in BOOLEAN, answer \in {"yes", "no"} :
                  /\ generate_receipt_docx(made, name_entry, diagnosis_entry,
                                           prescription_text, usage_entry)
                  /\ IF made THEN ask_and_print(answer)
                     ELSE answer = "no" /\ NotPrinted
                  /\ clear_form
                  /\ flow' = [NoFlow EXCEPT !.op = "save_and_print", !.stored = TRUE,
                                            !.refresh = index_status', !.docx = made,
                                            !.asked = IF made THEN answer ELSE "none",
                                            !.message = IF made THEN "saved and printed"
                                                        ELSE "saved",
                                            !.cleared = TRUE]
               /\ UNCHANGED <<settings, edits, pc, settings_file, pageVars,
                              printer_combo, dateVars>>

\* lines 1699-1711 and 1738-1749: the form filled from a row of the table
fill_form(row) ==
    /\ name_entry' = row.patient_name
    /\ diagnosis_entry' = row.diagnosis
    /\ prescription_text' = row.prescription
    /\ usage_entry' = IF row.usage # <<>> THEN row.usage ELSE DefaultUsage

\* mutant: the reprinted record is stored as a fresh row
Reprint_StoresRow(op, row) ==
    \E made \in BOOLEAN, answer \in {"yes", "no"} :
       /\ fill_form(row)
       /\ generate_receipt_docx(made, name_entry', diagnosis_entry',
                                prescription_text', usage_entry')
       /\ IF made THEN ask_and_print(answer)
          ELSE answer = "no" /\ NotPrinted
       /\ flow' = [NoFlow EXCEPT !.op = op, !.filled = TRUE, !.docx = made,
                                 !.asked = IF made THEN answer ELSE "none",
                                 !.message = IF ~made THEN "error"
                                             ELSE IF print_job'.error THEN "print error"
                                             ELSE "ask"]
       /\ rows' = IF Len(rows) < MaxRows THEN Append(rows, row) ELSE rows
       /\ UNCHANGED <<settings, edits, pc, settings_file, counterVars, categories,
                      all_words, index_status, refreshes, pageVars, printer_combo,
                      dateVars>>

\* lines 1699-1719 and 1738-1755 with the row fetched: the form is filled,
\* the document is generated from it and printed after the answer yes
Reprint(op, row) ==
    \E made \in BOOLEAN, answer \in {"yes", "no"} :
       /\ fill_form(row)
       /\ generate_receipt_docx(made, name_entry', diagnosis_entry',
                                prescription_text', usage_entry')
       /\ IF made THEN ask_and_print(answer)
          ELSE answer = "no" /\ NotPrinted
       /\ flow' = [NoFlow EXCEPT !.op = op, !.filled = TRUE, !.docx = made,
                                 !.asked = IF made THEN answer ELSE "none",
                                 !.message = IF ~made THEN "error"
                                             ELSE IF print_job'.error THEN "print error"
                                             ELSE "ask"]
       /\ UNCHANGED <<settings, edits, pc, settings_file, indexVars, pageVars,
                      printer_combo, dateVars>>

\* lines 1725-1758 with the row i of the list selected, 0 for no selection
print_selected_prescription(i) ==
    /\ pc = "ready"
    /\ IF i = 0
       THEN Refused("print_selected_prescription", "warning")
       ELSE \/ \* the SELECT raises
               Refused("print_selected_prescription", "error")
            \/ Reprint("print_selected_prescription", rows[i])

\* lines 1690-1723, the button of a detail window opened on the row that was
\* the i-th; the row may have been deleted since
print_prescription_by_id(i) ==
    /\ pc = "ready"
    /\ \/ Refused("print_prescription_by_id", "error")
       \/ IF i \in 1..Len(rows)
          THEN Reprint("print_prescription_by_id", rows[i])
          ELSE Refused("print_prescription_by_id", "none")

\* the table without its row i
Without(table, i) == SubSeq(table, 1, i - 1) \o SubSeq(table, i + 1, Len(table))

\* lines 1760-1779 with the row i of the list selected, 0 for no selection;
\* a declined confirmation returns with nothing done or shown
delete_prescription(i) ==
    /\ pc = "ready"
    /\ IF i = 0
       THEN Refused("delete_prescription", "warning")
       ELSE \/ \* the DELETE raises
               Refused("delete_prescription", "error")
            \/ /\ Committed(Without(rows, i))
               /\ flow' = [NoFlow EXCEPT !.op = "delete_prescription", !.stored = TRUE,
                                         !.refresh = index_status',
                                         !.message = "deleted", !.listed = TRUE]
               /\ UNCHANGED <<appVars, name_entry, deskVars>>

\* the user fills in the input page
type_form(f) ==
    /\ pc = "ready"
    /\ name_entry' = f.name
    /\ diagnosis_entry' = f.diagnosis
    /\ prescription_text' = f.prescription
    /\ usage_entry' = f.usage
    /\ UNCHANGED <<settings, estimateVars, edits, pc, settings_file, indexVars, flow,
                   deskVars>>

----------------------------------------------------------------------------
(* The handlers of the settings page and the switch of the completion panel *)

\* Settings.save_settings, lines 77-100: the dictionary dumped to
\* settings.json
Dumped(s) == [kind |-> "object", data |-> s]

\* Settings.save_settings: the file is rewritten, or the write raises and the
\* exception is printed
write_settings(s) == settings_file' \in {Dumped(s), settings_file}

\* lines 606-613: the assignments before the try block
AssignedFromPage(s, pg) ==
    [s EXCEPT !.smart_completion_enabled = pg.smart_var,
              !.default_doctor = strip(pg.doctor_entry),
              !.default_phone = strip(pg.phone_entry),
              !.clinic_name = strip(pg.clinic_name_entry),
              !.clinic_address = strip(pg.clinic_address_entry),
              !.clinic_phone = strip(pg.clinic_phone_entry),
              !.clinic_license = strip(pg.clinic_license_entry)]

\* lines 616-623: the parameters are converted and assigned one after the
\* other; the first conversion that raises ends the block.  The result is
\* the settings and whether the block ended normally.
ParametersFromPage(s, pg) ==
    IF IntRaises(pg.font_size_var) THEN [settings |-> s, parsed |-> FALSE]
    ELSE LET s1 == [s EXCEPT !.font_size = Num(pg.font_size_var.v)]
    IN IF FloatTextRaises(pg.line_spacing_var) THEN [settings |-> s1, parsed |-> FALSE]
    ELSE LET s2 == [s1 EXCEPT !.line_spacing = Num(pg.line_spacing_var.v)]
    IN IF FloatTextRaises(pg.safety_margin_var) THEN [settings |-> s2, parsed |-> FALSE]
    ELSE LET s3 == [s2 EXCEPT !.safety_margin = Num(pg.safety_margin_var.v)]
    IN IF FloatTextRaises(pg.margin_var) THEN [settings |-> s3, parsed |-> FALSE]
    ELSE LET s4 == [s3 EXCEPT !.margin_size = Num(pg.margin_var.v)]
    IN IF FloatTextRaises(pg.empty_ratio_var) THEN [settings |-> s4, parsed |-> FALSE]
    ELSE [settings |-> [s4 EXCEPT !.empty_ratio = Num(pg.empty_ratio_var.v)],
          parsed |-> TRUE]

\* mutant: the new doctor is written into the rows already stored
save_settings_UpdatesRows ==
    /\ pc = "ready"
    /\ LET result == ParametersFromPage(AssignedFromPage(settings, page), page)
       IN /\ settings' = result.settings
          /\ IF result.parsed
             THEN /\ write_settings(settings')
                  /\ enabled' = settings'.smart_completion_enabled
                  /\ flow' = [NoFlow EXCEPT !.op = "save_settings", !.message = "saved"]
             ELSE /\ UNCHANGED <<settings_file, enabled>>
                  /\ flow' = [NoFlow EXCEPT !.op = "save_settings",
                                            !.message = "warning"]
    /\ rows' = [j \in 1..Len(rows) |->
                  [rows[j] EXCEPT !.doctor = settings'.default_doctor]]
    /\ UNCHANGED <<formVars, estimateVars, edits, pc, counterVars, categories,
                   all_words, index_status, refreshes, name_entry, page,
                   printVars, dateVars>>

\* PrescriptionSystem.save_settings, lines 605-641
save_settings ==
    /\ pc = "ready"
    /\ LET result == ParametersFromPage(AssignedFromPage(settings, page), page)
       IN /\ settings' = result.settings
          /\ IF result.parsed
             THEN /\ write_settings(settings')
                  /\ enabled' = settings'.smart_completion_enabled
                  /\ flow' = [NoFlow EXCEPT !.op = "save_settings", !.message = "saved"]
             ELSE /\ UNCHANGED <<settings_file, enabled>>
                  /\ flow' = [NoFlow EXCEPT !.op = "save_settings",
                                            !.message = "warning"]
    /\ UNCHANGED <<formVars, estimateVars, edits, pc, indexVars, name_entry, page,
                   printVars, dateVars>>

\* lines 643-664
cancel_settings ==
    /\ pc = "ready"
    /\ page' = PageOf(settings)
    /\ UNCHANGED <<appVars, indexVars, flowVars, enabled, printVars, dateVars>>

\* SmartCompletionPanel.toggle_completion, lines 239-245: the check button
\* has flipped self.enabled before the command runs
toggle_completion ==
    /\ pc = "ready"
    /\ enabled' = ~enabled
    /\ settings' = [settings EXCEPT !.smart_completion_enabled = enabled']
    /\ write_settings(settings')
    /\ UNCHANGED <<formVars, estimateVars, edits, pc, indexVars, flowVars, page,
                   printVars, dateVars>>

\* the user edits the widgets of the settings page
edit_page(pg) ==
    /\ pc = "ready"
    /\ page' = pg
    /\ UNCHANGED <<appVars, indexVars, flowVars, enabled, printVars, dateVars>>

----------------------------------------------------------------------------
(* PrescriptionSystem.set_date_range.  A date is <<year, month, day>>.      *)

IsLeap(y) == (y % 4 = 0 /\ y % 100 # 0) \/ y % 400 = 0

DaysIn(y, m) ==
    IF m = 2 THEN (IF IsLeap(y) THEN 29 ELSE 28)
    ELSE IF m \in {4, 6, 9, 11} THEN 30
    ELSE 31

\* a date of the calendar
IsDate(d) == d[2] \in 1..12 /\ d[3] \in 1..DaysIn(d[1], d[2])

\* datetime.replace: the date with the fields given, or ValueError when
\* there is no such day
Replace(y, m, d) ==
    IF IsDate(<<y, m, d>>) THEN [raised |-> FALSE, date |-> <<y, m, d>>]
    ELSE [raised |-> TRUE, date |-> <<0, 0, 0>>]

\* date - timedelta(days=1)
DayBefore(d) ==
    IF d[3] > 1 THEN <<d[1], d[2], d[3] - 1>>
    ELSE IF d[2] > 1 THEN <<d[1], d[2] - 1, DaysIn(d[1], d[2] - 1)>>
    ELSE <<d[1] - 1, 12, 31>>

\* lines 1432-1463: the two dates for a range type with `today` the current
\* date, "raised" when a replace raises, "none" for another range type
DateRange(range_type, today) ==
    LET y == today[1]
        m == today[2]
        d == today[3]
    IN IF range_type = "current_month"
       THEN [status |-> "set", start_date |-> Replace(y, m, 1).date, end_date |-> today]
       ELSE IF range_type = "last_month"
       THEN LET last_month == IF m = 1 THEN Replace(y - 1, 12, 1).date
                              ELSE Replace(y, m - 1, 1).date
                next_month == IF last_month[2] = 12
                              THEN Replace(last_month[1] + 1, 1, last_month[3]).date
                              ELSE Replace(last_month[1], last_month[2] + 1,
                                           last_month[3]).date
                last_day_of_last_month == DayBefore(next_month)[3]
                end_of_last_month ==
                    Replace(last_month[1], last_month[2], last_day_of_last_month)
            IN [status |-> "set", start_date |-> last_month,
                end_date |-> end_of_last_month.date]
       ELSE IF range_type = "recent_3_months"
       THEN LET three_months_ago == IF m > 3 THEN Replace(y, m - 3, d)
                                    ELSE Replace(y - 1, m + 9, d)
            IN IF three_months_ago.raised
               THEN [status |-> "raised", start_date |-> <<0, 0, 0>>,
                     end_date |-> <<0, 0, 0>>]
               ELSE [status |-> "set", start_date |-> three_months_ago.date,
                     end_date |-> today]
       ELSE [status |-> "none", start_date |-> <<0, 0, 0>>, end_date |-> <<0, 0, 0>>]

\* lines 1430-1473 on the day `now`: the entries are filled and the list is
\* searched; an exception leaves the handler before that, and for another
\* range type the handler returns at once
set_date_range(range_type) ==
    /\ pc = "ready"
    /\ LET range == DateRange(range_type, now)
       IN /\ date_range' = IF range.status = "set" THEN range
                           ELSE [date_range EXCEPT !.status = range.status]
          /\ flow' = [NoFlow EXCEPT !.op = range_type,
                                    !.listed = (range.status = "set")]
    /\ UNCHANGED <<appVars, indexVars, name_entry, pageVars, printVars, now>>

----------------------------------------------------------------------------
(* Inputs *)

\* the three preset buttons, the spin boxes' upper ends, and values outside
\* the spin boxes' ranges that float() accepts
preset_minimal == [font_size |-> 7, line_spacing |-> 14, safety_margin |-> 13,
                   margin_size |-> 3, empty_ratio |-> 5]

preset_standard == [font_size |-> 9, line_spacing |-> 17, safety_margin |-> 15,
                    margin_size |-> 4, empty_ratio |-> 8]

preset_loose == [font_size |-> 10, line_spacing |-> 20, safety_margin |-> 13,
                 margin_size |-> 5, empty_ratio |-> 11]

SpinboxMaxima == [font_size |-> 12, line_spacing |-> 24, safety_margin |-> 25,
                  margin_size |-> 10, empty_ratio |-> 20]

OutOfRange == [font_size |-> 9, line_spacing |-> 17, safety_margin |-> 15,
               margin_size |-> -4, empty_ratio |-> -1]

ParameterInputs ==
    {preset_minimal, preset_standard, preset_loose, SpinboxMaxima, OutOfRange}

WithParameters(s, p) ==
    [s EXCEPT !.font_size = Num(p.font_size),
              !.line_spacing = Num(p.line_spacing),
              !.safety_margin = Num(p.safety_margin),
              !.margin_size = Num(p.margin_size),
              !.empty_ratio = Num(p.empty_ratio)]

ClinicSet ==
    [DefaultSettings EXCEPT !.default_doctor = <<"x", "y">>,
                            !.default_phone = <<"1">>,
                            !.clinic_name = <<"x">>,
                            !.clinic_address = Rep("x", AddressLen),
                            !.clinic_phone = <<"1">>,
                            !.clinic_license = <<"y">>]

SettingsInputs ==
       {WithParameters(DefaultSettings, p) : p \in ParameterInputs}
    \cup {WithParameters(ClinicSet, p) : p \in {preset_minimal, preset_standard}}

\* n ordinary characters between pad spaces on either side
Padded(n, pad) == Rep(" ", pad) \o Rep("x", n) \o Rep(" ", pad)

FieldInputs == {Padded(n, pad) : n \in 0..MaxTextLen, pad \in 0..1}

RECURSIVE Body(_, _, _)
\* n lines of w characters, each followed by gap blank lines
Body(n, w, gap) ==
    IF n = 0 THEN <<>>
    ELSE LET rest == Body(n - 1, w, gap)
             one == Rep("x", w) \o Rep("\n", 1) \o
                    (IF gap = 1 THEN <<" ", "\n">> ELSE <<>>)
         IN one \o rest

BodyInputs ==
    {Body(n, w, gap) : n \in 0..MaxLines, w \in {1, PrescriptionWidth}, gap \in 0..1}

FormInputs ==
       {[diagnosis |-> d, prescription |-> <<>>, usage |-> <<>>] : d \in FieldInputs}
    \cup {[diagnosis |-> <<>>, prescription |-> <<>>, usage |-> u] : u \in FieldInputs}
    \cup {[diagnosis |-> d, prescription |-> b, usage |-> <<"x", "y">>] :
              d \in {<<>>, Padded(DiagnosisWidth, 1)}, b \in BodyInputs}
    \cup {[diagnosis |-> <<" ">>, prescription |-> <<" ", "\n", " ">>, usage |-> <<>>]}

----------------------------------------------------------------------------
(* The estimator applied to bounded inputs *)

Init ==
    /\ settings \in SettingsInputs
    /\ \E f \in FormInputs :
          /\ diagnosis_entry = f.diagnosis
          /\ prescription_text = f.prescription
          /\ usage_entry = f.usage
    /\ content_height = 0
    /\ page_height = [kind |-> "none", v |-> 0]
    /\ calls = <<>>
    /\ edits = 0
    /\ pc = "ready"
    /\ settings_file = [kind |-> "absent"]
    /\ rows = <<>>
    /\ IndexUnbuilt
    /\ FlowIdle
    /\ DeskIdle

Next == calculate_page_height

Spec == Init /\ [][Next]_vars

----------------------------------------------------------------------------
(* The estimator called between edits of the prescription body *)

EditSettingsInputs ==
    {WithParameters(DefaultSettings, p) : p \in {preset_minimal, preset_loose, OutOfRange}}

InitEdit ==
    /\ settings \in EditSettingsInputs
    /\ diagnosis_entry = <<"x", "y">>
    /\ prescription_text \in {Body(n, 1, 0) : n \in 0..MaxLines}
    /\ usage_entry = <<>>
    /\ content_height = 0
    /\ page_height = [kind |-> "none", v |-> 0]
    /\ calls = <<>>
    /\ edits = 0
    /\ pc = "ready"
    /\ settings_file = [kind |-> "absent"]
    /\ rows = <<>>
    /\ IndexUnbuilt
    /\ FlowIdle
    /\ DeskIdle

NextEdit ==
    \/ calculate_page_height
    \/ \E line \in LineInputs : append_prescription_line(line)

EditSpec == InitEdit /\ [][NextEdit]_vars

----------------------------------------------------------------------------
(* The settings loaded at start-up from bounded settings.json contents, and *)
(* the estimator called on them *)

StoredValue(key, choice) ==
    [kind |-> choice, v |-> IF choice \in {"num", "numstr"} THEN preset_loose[key] ELSE 0]

\* the object whose numeric keys hold what choice says, with or without the
\* text keys
DataOf(choice, withText) ==
    [k \in {n \in NumericKeys : choice[n] # "missing"}
            \cup (IF withText THEN TextKeys ELSE {}) |->
        IF k \in NumericKeys THEN StoredValue(k, choice[k]) ELSE ClinicSet[k]]

FileInputs ==
       {[kind |-> "absent"], [kind |-> "corrupt"], [kind |-> "array"]}
    \cup {[kind |-> "object", data |-> DataOf(choice, withText)] :
              choice \in [NumericKeys -> {"missing", "num", "numstr", "str", "null"}],
              withText \in BOOLEAN}

InitSettings ==
    /\ pc = "constructing"
    /\ settings = DefaultSettings
    /\ settings_file \in FileInputs
    /\ diagnosis_entry = <<>>
    /\ prescription_text = <<>>
    /\ usage_entry = DefaultUsage
    /\ content_height = 0
    /\ page_height = [kind |-> "none", v |-> 0]
    /\ calls = <<>>
    /\ edits = 0
    /\ rows = <<>>
    /\ IndexUnbuilt
    /\ FlowIdle
    /\ page = NoPage
    /\ enabled = TRUE
    /\ PrintIdle

NextSettings ==
    \/ load_settings
    \/ calculate_page_height

SettingsSpec == InitSettings /\ [][NextSettings]_vars

----------------------------------------------------------------------------
(* The indexer applied to bounded contents of the prescriptions table.  The *)
(* rows are rows save_to_database can write: every field stripped, the      *)
(* prescription not empty.                                                  *)

Huangqi == <<"huang", "qi">>

Danggui == <<"dang", "gui">>

\* the line "huangqi 15g, danggui 10g" with a fullwidth comma, no spaces
ExampleLine == Huangqi \o <<"1", "5", "g", "fwcomma">> \o Danggui \o <<"1", "0", "g">>

PrescriptionInputs ==
    { ExampleLine,
      Huangqi \o <<"ke">>,
      <<"pian", "jiang", "huang", "1", "0", "g">>,
      Rep("x", 7) \o <<"5", "g">>,
      Rep("x", 6) \o <<" ", "5", "g">>,
      Danggui \o <<"dun">> \o Huangqi \o <<"\n", " ", "\n", "x", "1", ",", "y", "y">>,
      <<",">> \o Danggui \o <<"5", "ke", "\n">> \o ExampleLine }

\* the diagnosis and usage of a row: neither; "pixu,shicheng" with a
\* fullwidth comma and no usage; the same with an ASCII full stop; a
\* diagnosis with an enumeration comma, a colon, brackets and a
\* one-character token, with a usage that is also a medicine name
RowInputs ==
       {[patient_name |-> <<"x">>, diagnosis |-> <<>>, prescription |-> p,
         usage |-> <<"x", "y">>, doctor |-> <<>>, doctor_phone |-> <<>>] :
              p \in PrescriptionInputs}
    \cup {[patient_name |-> <<"y">>, diagnosis |-> du[1], prescription |-> ExampleLine,
           usage |-> du[2], doctor |-> <<"x", "y">>, doctor_phone |-> <<"1">>] :
              du \in { <<<<>>, <<>>>>,
                       <<<<"pi", "xu", "fwcomma", "shi", "cheng">>, <<>>>>,
                       <<<<"pi", "xu", ".", "shi", "cheng">>, <<"x", "y">>>>,
                       <<<<"pi", "xu", "dun", "x", "fwcolon", "lcorner", "shi", "cheng",
                           "rcorner">>, Huangqi>> }}

RECURSIVE SeqsUpTo(_, _)
\* the sequences of at most n elements of S
SeqsUpTo(S, n) ==
    IF n = 0 THEN {<<>>}
    ELSE LET shorter == SeqsUpTo(S, n - 1)
         IN shorter \cup {Append(q, x) : q \in shorter, x \in S}

\* a long table: the usage texts "y", "yy", ... in this order, then the last
\* and the third of them once more
UsageRow(n) ==
    [patient_name |-> <<"x">>, diagnosis |-> <<>>, prescription |-> <<"x">>,
     usage |-> Rep("y", n), doctor |-> <<>>, doctor_phone |-> <<>>]

LongTable ==
    [i \in 1..ManyUsages |-> UsageRow(i)] \o <<UsageRow(ManyUsages), UsageRow(3)>>

InitIndexer ==
    /\ rows \in SeqsUpTo(RowInputs, MaxRows) \cup {LongTable}
    /\ IndexUnbuilt
    /\ FlowIdle
    /\ settings = DefaultSettings
    /\ diagnosis_entry = <<>>
    /\ prescription_text = <<>>
    /\ usage_entry = DefaultUsage
    /\ content_height = 0
    /\ page_height = [kind |-> "none", v |-> 0]
    /\ calls = <<>>
    /\ edits = 0
    /\ pc = "ready"
    /\ settings_file = [kind |-> "absent"]
    /\ DeskIdle

NextIndexer == load_words_from_database

IndexerSpec == InitIndexer /\ [][NextIndexer]_vars

----------------------------------------------------------------------------
(* The input page, the record list and the completion panel of a running   *)
(* program whose table was empty at start.                                  *)

CompleteForm ==
    [name |-> <<"x">>, diagnosis |-> <<"pi", "xu", "fwcomma", "shi", "cheng">>,
     prescription |-> ExampleLine, usage |-> <<"x", "y">>]

\* name and body padded with whitespace, the usage blank
PaddedForm ==
    [name |-> <<" ", "y">>, diagnosis |-> <<>>,
     prescription |-> <<" ">> \o Huangqi \o <<"ke", "\n">>, usage |-> <<" ">>]

\* the name blank
NamelessForm ==
    [name |-> <<" ">>, diagnosis |-> <<>>,
     prescription |-> ExampleLine, usage |-> <<"x", "y">>]

\* the prescription blank
BodylessForm ==
    [name |-> <<"x">>, diagnosis |-> <<>>,
     prescription |-> <<" ", "\n">>, usage |-> DefaultUsage]

TypedForms == {CompleteForm, NamelessForm, BodylessForm}

\* after PrescriptionSystem.__init__: the panel's constructor has called
\* load_words_from_database once (line 181) on the empty table
InitFlow ==
    /\ pc = "ready"
    /\ settings = DefaultSettings
    /\ settings_file = [kind |-> "absent"]
    /\ diagnosis_entry = <<>>
    /\ prescription_text = <<>>
    /\ usage_entry = DefaultUsage
    /\ content_height = 0
    /\ page_height = [kind |-> "none", v |-> 0]
    /\ calls = <<>>
    /\ edits = 0
    /\ rows = <<>>
    /\ medicine_words = <<>>
    /\ diagnosis_words = <<>>
    /\ prescription_phrases = <<>>
    /\ usage_words = <<>>
    /\ categories = NoWords
    /\ all_words = <<>>
    /\ index_status \in {"built", "failed"}
    /\ refreshes = 1
    /\ FlowIdle
    /\ DeskIdle

NextFlow ==
    \/ \E f \in TypedForms : type_form(f)
    \/ save_only
    \/ save_and_print
    \/ \E i \in 0..Len(rows) : delete_prescription(i)
    \/ load_words_from_database

FlowSpec == InitFlow /\ [][NextFlow]_vars

\* the same program saving without printing, with one more form to type
NextSave ==
    \/ \E f \in TypedForms \cup {PaddedForm} : type_form(f)
    \/ save_only
    \/ \E i \in 0..Len(rows) : delete_prescription(i)
    \/ load_words_from_database

SaveSpec == InitFlow /\ [][NextSave]_vars

----------------------------------------------------------------------------
(* Reprinting from a table that holds two prescriptions, with a printer     *)
(* chosen or not, with and without the clinic configured.                   *)

\* a prescription of MaxLines lines, more than the receipt prints
LongForm ==
    [name |-> <<"y">>, diagnosis |-> <<>>,
     prescription |-> Body(MaxLines, 1, 1), usage |-> <<>>]

\* the row save_to_database writes for the form f under the settings s
StoredRow(f, s) ==
    [patient_name |-> strip(f.name), diagnosis |-> strip(f.diagnosis),
     prescription |-> strip(f.prescription), usage |-> strip(f.usage),
     doctor |-> s.default_doctor, doctor_phone |-> s.default_phone]

\* the vocabulary as the panel's constructor builds it from the table
BuiltFrom(table) ==
    LET acc == ScanRows(table, EmptyCounters)
        union == sorted(Distinct(AllWordsOf(acc)))
    IN /\ medicine_words = acc.medicine
       /\ diagnosis_words = acc.diagnosis
       /\ prescription_phrases = acc.phrases
       /\ usage_words = acc.usage
       /\ categories = [medicines |-> most_common(acc.medicine, 100),
                        diagnoses |-> most_common(acc.diagnosis, 50),
                        phrases |-> most_common(acc.phrases, 30),
                        usages |-> most_common(acc.usage, 20),
                        all |-> union]
       /\ all_words = union
       /\ index_status = "built"
       /\ refreshes = 1

InitPrint ==
    /\ pc = "ready"
    /\ settings \in {DefaultSettings, ClinicSet}
    /\ settings_file = [kind |-> "absent"]
    /\ diagnosis_entry = <<>>
    /\ prescription_text = <<>>
    /\ usage_entry = DefaultUsage
    /\ content_height = 0
    /\ page_height = [kind |-> "none", v |-> 0]
    /\ calls = <<>>
    /\ edits = 0
    /\ rows = <<StoredRow(CompleteForm, settings), StoredRow(LongForm, settings)>>
    /\ BuiltFrom(rows)
    /\ FlowIdle
    /\ page = PageOf(settings)
    /\ enabled = settings.smart_completion_enabled
    /\ printer_combo \in {"", "pos58"}
    /\ default_printer = "office"
    /\ print_job = NoPrint
    /\ receipt = NoReceipt
    /\ now = <<2025, 1, 15>>
    /\ date_range = NoRange

NextPrint ==
    \/ \E i \in 0..Len(rows) : print_selected_prescription(i)
    \/ \E i \in 1..(Len(rows) + 1) : print_prescription_by_id(i)

PrintSpec == InitPrint /\ [][NextPrint]_vars

----------------------------------------------------------------------------
(* Saving, reprinting and deleting from an empty table.                     *)

InitRecord ==
    /\ InitFlow
    /\ index_status = "built"

NextRecord ==
    \/ type_form(CompleteForm)
    \/ save_only
    \/ \E i \in 0..Len(rows) : print_selected_prescription(i)
    \/ \E i \in 1..(Len(rows) + 1) : print_prescription_by_id(i)
    \/ \E i \in 0..Len(rows) : delete_prescription(i)

RecordSpec == InitRecord /\ [][NextRecord]_vars

----------------------------------------------------------------------------
(* The settings page and the switch of the completion panel.                *)

\* what the user leaves in the settings page: another doctor; the panel
\* switched off; a first parameter box that does not hold a number; a font
\* size with a decimal point; the last parameter box not holding a number
PageInputs ==
    { [PageOf(ClinicSet) EXCEPT !.doctor_entry = <<" ", "y">>,
                                !.phone_entry = <<"5">>],
      [PageOf(DefaultSettings) EXCEPT !.smart_var = FALSE],
      [PageOf(DefaultSettings) EXCEPT !.doctor_entry = <<"y">>, !.smart_var = FALSE,
                                      !.font_size_var = [kind |-> "bad", v |-> 0]],
      [PageOf(ClinicSet) EXCEPT !.font_size_var = [kind |-> "decimal", v |-> 9]],
      [PageOf(WithParameters(DefaultSettings, preset_loose)) EXCEPT
           !.empty_ratio_var = [kind |-> "bad", v |-> 0]] }

NextPage ==
    \/ \E pg \in PageInputs : edit_page(pg)
    \/ save_settings
    \/ cancel_settings
    \/ toggle_completion

PageSpec == InitRecord /\ [][NextPage]_vars

----------------------------------------------------------------------------
(* Prescriptions saved and reprinted while the doctor is changed in the     *)
(* settings page.                                                           *)

\* the settings page with another doctor and another phone typed in
DoctorPage ==
    [PageOf(DefaultSettings) EXCEPT !.doctor_entry = <<" ", "y">>,
                                    !.phone_entry = <<"5">>]

NextOffice ==
    \/ edit_page(DoctorPage)
    \/ save_settings
    \/ type_form(CompleteForm)
    \/ save_only
    \/ \E i \in 0..Len(rows) : print_selected_prescription(i)

OfficeSpec == InitRecord /\ [][NextOffice]_vars

----------------------------------------------------------------------------
(* The quick-range buttons of the query page pressed on any day of the      *)
(* years FirstYear to LastYear.                                             *)

DateInputs ==
    {d \in (FirstYear..LastYear) \X (1..12) \X (1..31) : IsDate(d)}

RangeTypes == {"current_month", "last_month", "recent_3_months", "this_year"}

InitDate ==
    /\ pc = "ready"
    /\ settings = DefaultSettings
    /\ settings_file = [kind |-> "absent"]
    /\ diagnosis_entry = <<>>
    /\ prescription_text = <<>>
    /\ usage_entry = DefaultUsage
    /\ content_height = 0
    /\ page_height = [kind |-> "none", v |-> 0]
    /\ calls = <<>>
    /\ edits = 0
    /\ rows = <<>>
    /\ BuiltFrom(rows)
    /\ FlowIdle
    /\ page = PageOf(settings)
    /\ enabled = settings.smart_completion_enabled
    /\ printer_combo = ""
    /\ default_printer = "office"
    /\ print_job = NoPrint
    /\ receipt = NoReceipt
    /\ now \in DateInputs
    /\ date_range = NoRange

NextDate == \E r \in RangeTypes : set_date_range(r)

DateSpec == InitDate /\ [][NextDate]_vars

----------------------------------------------------------------------------
(* What the statements below are written in: text measured by position,     *)
(* independently of strip, split and the estimator's loop.                  *)

NonSpace(s) == {i \in 1..Len(s) : s[i] \notin Whitespace}

\* number of characters left when leading and trailing whitespace is removed
TrimmedLen(s) ==
    IF NonSpace(s) = {} THEN 0
    ELSE LET first == CHOOSE i \in NonSpace(s) : \A j \in NonSpace(s) : i <= j
             last == CHOOSE i \in NonSpace(s) : \A j \in NonSpace(s) : j <= i
         IN last - first + 1

\* positions at which a line of the text starts
LineStarts(text) == {i \in 1..(Len(text) + 1) : i = 1 \/ text[i - 1] = "\n"}

LineAt(text, i) ==
    LET stop == CHOOSE j \in i..(Len(text) + 1) :
                    /\ j = Len(text) + 1 \/ text[j] = "\n"
                    /\ \A k \in i..(j - 1) : text[k] # "\n"
    IN SubSeq(text, i, stop - 1)

NonBlankStarts(text) == {i \in LineStarts(text) : TrimmedLen(LineAt(text, i)) > 0}

NonBlankCount(text) == Cardinality(NonBlankStarts(text))

\* the starts of the first max_prescription_lines non-blank lines
CountedStarts(text) ==
    LET starts == NonBlankStarts(text)
    IN {i \in starts : Cardinality({k \in starts : k <= i}) <= max_prescription_lines}

RECURSIVE SumOver(_, _)
SumOver(S, text) ==
    IF S = {} THEN 0
    ELSE LET i == CHOOSE k \in S : TRUE
         IN (TrimmedLen(LineAt(text, i)) \div 16 + 1) + SumOver(S \ {i}, text)

\* line heights of the first 15 non-blank lines, n characters taking n div 16 + 1
CountedBodyLines(text) == SumOver(CountedStarts(text), text)

\* line heights of a diagnosis or usage text of n characters: n div 18 + 1, or 0
WrappedFieldLines(text) ==
    IF TrimmedLen(text) = 0 THEN 0 ELSE TrimmedLen(text) \div 18 + 1

\* the lines every receipt has, in fifths of a line: title 1.2, subtitle 1,
\* patient block 4, prescription label 1, four separators of 0.6
FixedFifths == 6 + 5 + 20 + 5 + 4 * 3

\* the conditional one-paragraph lines of the settings, in fifths of a line
SettingsFifths(s) ==
      (IF Len(s.clinic_address) > 0 THEN 5 * (Len(s.clinic_address) \div 18 + 1) ELSE 0)
    + 5 * Cardinality({f \in {"clinic_phone", "default_doctor", "default_phone",
                              "clinic_license"} : Len(s[f]) > 0})

\* (font_size / 72) * 2.54 * line_spacing of the settings, in 1/72000 cm
LineHeightOf(s) == s.font_size.v * 127 * s.line_spacing.v

Positive(s) ==
    /\ s.font_size.v > 0
    /\ s.line_spacing.v > 0
    /\ s.margin_size.v > 0
    /\ s.empty_ratio.v > 0

\* the last call of calculate_page_height returned a height for the current
\* settings and form
Measured ==
    /\ calls # <<>>
    /\ calls[Len(calls)] = CallRecord(page_height)
    /\ page_height.kind = "ok"

FormEmpty ==
    /\ TrimmedLen(diagnosis_entry) = 0
    /\ TrimmedLen(usage_entry) = 0
    /\ NonBlankCount(prescription_text) = 0

----------------------------------------------------------------------------
(* C1: with more than 15 non-blank prescription lines the estimator counts *)
(* the first 15 non-blank lines plus one line height for the truncation    *)
(* marker the renderer emits, and nothing else for the body.               *)
C1_TruncationMarkerCounted ==
    (Measured /\ NonBlankCount(prescription_text) > max_prescription_lines) =>
        content_height =
            LineHeightOf(settings)
              * ( FixedFifths + SettingsFifths(settings)
                + 5 * ( WrappedFieldLines(diagnosis_entry)
                      + CountedBodyLines(prescription_text) + 1
                      + WrappedFieldLines(usage_entry) ) )

(* C2: for positive layout parameters and every form content the returned  *)
(* height is within [0, 29.7 cm], and is exactly 29.7 cm whenever content   *)
(* height x empty ratio + 2 x margin exceeds 29.7 cm.                       *)
C2_HeightWithinPage ==
    (Measured /\ Positive(settings)) =>
        /\ page_height.v >= 0
        /\ page_height.v <= 297 * 72000
        /\ (content_height * settings.empty_ratio.v
              + 2 * settings.margin_size.v * 36000 > 297 * 72000)
               => page_height.v = 297 * 72000

C2_Witness ==
    /\ Measured
    /\ Positive(settings)
    /\ content_height * settings.empty_ratio.v
         + 2 * settings.margin_size.v * 36000 > 297 * 72000
    /\ page_height.v = 297 * 72000

(* C3: the returned height is min(29.7, contentHeight x emptyRatio +        *)
(* 2 x marginSize): the empty ratio scales the content height only, the     *)
(* margins are added unscaled, the clamp comes last.                        *)
C3_RatioThenMarginsThenClamp ==
    Measured =>
        page_height.v =
            Min(297 * 72000,
                content_height * settings.empty_ratio.v
                  + 2 * settings.margin_size.v * 36000)

C3_Witness ==
    /\ Measured
    /\ settings.empty_ratio.v > 2
    /\ settings.margin_size.v > 0
    /\ page_height.v < 297 * 72000
    /\ NonBlankCount(prescription_text) > 0

\* the second of two calls measured the first call's form with one more
\* non-blank line at the end of the prescription body
AppendedBetweenCalls ==
    /\ Len(calls) = 2
    /\ calls[1].result.kind = "ok"
    /\ calls[2].result.kind = "ok"
    /\ calls[2].settings = calls[1].settings
    /\ calls[2].diagnosis = calls[1].diagnosis
    /\ calls[2].usage = calls[1].usage
    /\ \E line \in LineInputs :
          /\ TrimmedLen(line) > 0
          /\ calls[2].prescription =
                IF calls[1].prescription = <<>> THEN line
                ELSE calls[1].prescription \o <<"\n">> \o line

(* C4: with positive parameters and everything else fixed, one more         *)
(* non-blank prescription line never decreases the returned height.         *)
C4_Monotone ==
    (AppendedBetweenCalls /\ Positive(calls[1].settings)) =>
        calls[2].result.v >= calls[1].result.v

C4_Witness ==
    /\ AppendedBetweenCalls
    /\ Positive(calls[1].settings)
    /\ calls[2].result.v > calls[1].result.v

\* a second C4 case: the 15-line cap is reached and the height stays equal
C4_WitnessAtCap ==
    /\ AppendedBetweenCalls
    /\ Positive(calls[1].settings)
    /\ NonBlankCount(calls[1].prescription) >= max_prescription_lines
    /\ calls[2].result.v = calls[1].result.v
    /\ calls[2].result.v < 297 * 72000

(* C5 as stated: with an empty form and positive parameters the height is   *)
(* at least (fixed title, subtitle, patient, label and separator lines) x   *)
(* empty ratio, and is positive.                                            *)
C5_AtLeastFixedTimesRatio ==
    (Measured /\ FormEmpty /\ Positive(settings)) =>
        /\ page_height.v >=
               LineHeightOf(settings) * FixedFifths * settings.empty_ratio.v
        /\ page_height.v > 0

(* C5 amended: with an empty form and positive parameters the height is at  *)
(* least the smaller of 29.7 cm and (fixed lines) x empty ratio, and is     *)
(* positive.                                                                *)
C5_AtLeastFixedTimesRatioOrPage ==
    (Measured /\ FormEmpty /\ Positive(settings)) =>
        /\ page_height.v >=
               Min(297 * 72000,
                   LineHeightOf(settings) * FixedFifths * settings.empty_ratio.v)
        /\ page_height.v > 0

C5_Witness ==
    /\ Measured
    /\ FormEmpty
    /\ Positive(settings)
    /\ Len(prescription_text) > 0
    /\ page_height.v < 297 * 72000

(* C6: a non-empty diagnosis or usage of n characters adds n div 18 + 1     *)
(* line heights, a non-blank prescription line of n characters adds         *)
(* n div 16 + 1; an empty diagnosis or usage adds none; blank prescription  *)
(* lines add none and do not count toward the 15-line cap.                  *)
C6_WrappedLineCounts ==
    Measured =>
        content_height =
            LineHeightOf(settings)
              * ( FixedFifths + SettingsFifths(settings)
                + 5 * ( WrappedFieldLines(diagnosis_entry)
                      + CountedBodyLines(prescription_text)
                      + WrappedFieldLines(usage_entry) ) )

C6_Witness ==
    /\ Measured
    /\ TrimmedLen(diagnosis_entry) >= 18
    /\ Len(diagnosis_entry) > TrimmedLen(diagnosis_entry)
    /\ NonBlankCount(prescription_text) >= max_prescription_lines
    /\ Cardinality(LineStarts(prescription_text)) > 2 * NonBlankCount(prescription_text)
    /\ \E i \in CountedStarts(prescription_text) :
           TrimmedLen(LineAt(prescription_text, i)) >= 16

\* a second C6 case: an empty (all blank) diagnosis, a wrapped usage
C6_WitnessEmptyField ==
    /\ Measured
    /\ Len(diagnosis_entry) > 0
    /\ TrimmedLen(diagnosis_entry) = 0
    /\ content_height = LineHeightOf(settings) * (FixedFifths + SettingsFifths(settings))

(* C7: in the additive variant the page height is (content height + top and *)
(* bottom margins) x safety_margin, clamped to 29.7 cm, so the safety       *)
(* multiplier changes the height below the ceiling.  Heights here are in    *)
(* 1/3600000 cm.                                                            *)
C7_SafetyMarginScalesHeight ==
    Measured =>
        page_height.v * 5 =
            Min(297 * 72000 * 5,
                (content_height + 2 * settings.margin_size.v * 18000)
                  * settings.safety_margin.v)

WellFormedStored(key) ==
    /\ settings_file.kind = "object"
    /\ key \in DOMAIN settings_file.data
    /\ settings_file.data[key].kind = "num"

(* C9: after load_settings every numeric setting holds the well-formed      *)
(* value stored for its key, or its default when the key is missing or its  *)
(* value malformed, so a later calculate_page_height never fails.           *)
C9_LoadSubstitutesDefaults ==
    (pc = "ready") =>
        /\ \A k \in NumericKeys :
              settings[k] = IF WellFormedStored(k)
                            THEN settings_file.data[k]
                            ELSE DefaultSettings[k]
        /\ page_height.kind # "TypeError"

----------------------------------------------------------------------------
(* Medicine tokens measured by position: "\n" and " " are delimiters too,   *)
(* so the tokens of all non-blank lines of a prescription are the maximal   *)
(* delimiter-free runs of the whole field.                                  *)

TokenDelimiters == {",", "fwcomma", "dun", " ", "\n"}

DigitOrUnit == {"0", "1", "5", "ke", "g", "li", "pian", "bao", "qian", "liang", "sheng"}

TokenStarts(text) ==
    {i \in 1..Len(text) :
        text[i] \notin TokenDelimiters /\ (i = 1 \/ text[i - 1] \in TokenDelimiters)}

TokenAt(text, i) ==
    LET stop == CHOOSE j \in i..(Len(text) + 1) :
                    /\ j = Len(text) + 1 \/ text[j] \in TokenDelimiters
                    /\ \A k \in i..(j - 1) : text[k] \notin TokenDelimiters
    IN SubSeq(text, i, stop - 1)

\* the token up to its first digit or unit character
TermOf(token) ==
    LET cut == {k \in 1..Len(token) : token[k] \in DigitOrUnit}
        first == IF cut = {} THEN Len(token) + 1
                 ELSE CHOOSE k \in cut : \A j \in cut : k <= j
    IN SubSeq(token, 1, first - 1)

\* where in the table a token with the term t stands: <<row, position>>
Occurrences(t) ==
    UNION { {<<r, i>> : i \in {k \in TokenStarts(rows[r].prescription) :
                                  TermOf(TokenAt(rows[r].prescription, k)) = t}} :
            r \in 1..Len(rows) }

TableTerms ==
    UNION { {TermOf(TokenAt(rows[r].prescription, i)) :
                i \in TokenStarts(rows[r].prescription)} : r \in 1..Len(rows) }

CountOf(counter, w) ==
    IF \E i \in 1..Len(counter) : counter[i].word = w
    THEN LET i == CHOOSE k \in 1..Len(counter) : counter[k].word = w IN counter[i].count
    ELSE 0

HasLine(text, line) == \E i \in LineStarts(text) : LineAt(text, i) = line

(* C10: a token of a non-blank prescription line, cut at its first digit    *)
(* and then at its first unit character, is counted as a medicine term      *)
(* exactly when 2 to 6 characters remain; no medicine term holds a digit or *)
(* a unit character; a row with the line "huangqi 15g, danggui 10g" puts    *)
(* "huangqi" in the medicine table and the whole line in the phrase table.  *)
C10_MedicineTerms ==
    (index_status = "built") =>
        /\ \A t \in TableTerms \cup Keys(medicine_words) :
              CountOf(medicine_words, t) =
                  IF 2 <= Len(t) /\ Len(t) <= 6 THEN Cardinality(Occurrences(t)) ELSE 0
        /\ \A t \in Keys(medicine_words) : \A k \in 1..Len(t) : t[k] \notin DigitOrUnit
        /\ \A r \in 1..Len(rows) :
              HasLine(rows[r].prescription, ExampleLine) =>
                  /\ Huangqi \in Keys(medicine_words)
                  /\ ExampleLine \in Keys(prescription_phrases)

C10_Witness ==
    /\ index_status = "built"
    /\ \E r \in 1..Len(rows) : HasLine(rows[r].prescription, ExampleLine)
    /\ CountOf(medicine_words, Huangqi) >= 2
    /\ ExampleLine \in Keys(prescription_phrases)
    /\ \E t \in TableTerms : Len(t) < 2
    /\ Cardinality(Keys(medicine_words)) < Cardinality(TableTerms)

----------------------------------------------------------------------------
(* Diagnosis tokens measured by position: the maximal runs of a field that  *)
(* hold none of the delimiters the specification lists.                     *)

ListedDiagnosisDelimiters ==
    {",", "fwcomma", ".", "fwstop", "dun", ":", "fwcolon",
     "[", "]", "lcorner", "rcorner", " ", "\n"}

RunStarts(text, D) ==
    {i \in 1..Len(text) : text[i] \notin D /\ (i = 1 \/ text[i - 1] \in D)}

RunAt(text, i, D) ==
    LET stop == CHOOSE j \in i..(Len(text) + 1) :
                    /\ j = Len(text) + 1 \/ text[j] \in D
                    /\ \A k \in i..(j - 1) : text[k] \notin D
    IN SubSeq(text, i, stop - 1)

\* where in the table a diagnosis token t stands: <<row, position>>
DiagnosisOccurrences(t) ==
    UNION { {<<r, i>> : i \in {k \in RunStarts(rows[r].diagnosis, ListedDiagnosisDelimiters) :
                                  RunAt(rows[r].diagnosis, k, ListedDiagnosisDelimiters) = t}} :
            r \in 1..Len(rows) }

DiagnosisTokens ==
    UNION { {RunAt(rows[r].diagnosis, i, ListedDiagnosisDelimiters) :
                i \in RunStarts(rows[r].diagnosis, ListedDiagnosisDelimiters)} :
            r \in 1..Len(rows) }

Pixu == <<"pi", "xu">>

Shicheng == <<"shi", "cheng">>

(* C11: after a build the diagnosis table counts exactly the tokens of two  *)
(* or more characters that the listed delimiters (ASCII and fullwidth       *)
(* comma, ASCII and ideographic full stop, enumeration comma, colons,       *)
(* brackets, whitespace) cut the diagnosis fields into; no diagnosis term   *)
(* holds a listed delimiter; "pixu,shicheng" gives the terms "pixu" and     *)
(* "shicheng".                                                              *)
C11_DiagnosisTerms ==
    (index_status = "built") =>
        /\ \A t \in DiagnosisTokens \cup Keys(diagnosis_words) :
              CountOf(diagnosis_words, t) =
                  IF Len(t) >= 2 THEN Cardinality(DiagnosisOccurrences(t)) ELSE 0
        /\ \A t \in Keys(diagnosis_words) :
              \A k \in 1..Len(t) : t[k] \notin ListedDiagnosisDelimiters
        /\ \A r \in 1..Len(rows) :
              rows[r].diagnosis = Pixu \o <<"fwcomma">> \o Shicheng =>
                  {Pixu, Shicheng} \subseteq Keys(diagnosis_words)

----------------------------------------------------------------------------
\* a comes before b in code-point lexicographic order
LexBefore(a, b) ==
    LET same == {n \in 0..Min(Len(a), Len(b)) : \A j \in 1..n : a[j] = b[j]}
        n == CHOOSE k \in same : \A j \in same : j <= k
    IN IF n = Len(a) THEN n < Len(b)
       ELSE n < Len(b) /\ CodePoint(a[n + 1]) < CodePoint(b[n + 1])

Elements(list) == {list[i] : i \in 1..Len(list)}

UnionKeys == Keys(medicine_words) \cup Keys(diagnosis_words) \cup Keys(usage_words)

(* C12: after a build the union category holds exactly the distinct keys of *)
(* the full medicine, diagnosis and usage tables, each once, in ascending   *)
(* lexicographic order, and no term that only the phrase table holds;       *)
(* all_words is that list.                                                  *)
C12_UnionCategory ==
    (index_status = "built") =>
        /\ Elements(categories.all) = UnionKeys
        /\ \A i, j \in 1..Len(categories.all) :
              i < j => LexBefore(categories.all[i], categories.all[j])
        /\ \A t \in Keys(prescription_phrases) \ UnionKeys :
              t \notin Elements(categories.all)
        /\ all_words = categories.all

C12_Witness ==
    /\ index_status = "built"
    /\ Len(categories.all) >= 4
    /\ Keys(prescription_phrases) \ UnionKeys # {}
    /\ Keys(medicine_words) \cap Keys(usage_words) # {}
    /\ Keys(diagnosis_words) # {}

----------------------------------------------------------------------------
\* where the counter first met the word w
Discovery(counter, w) == CHOOSE k \in 1..Len(counter) : counter[k].word = w

\* list is the n most frequent words of counter, ties in discovery order
RankedTopOf(list, counter, n) ==
    /\ Len(list) <= n
    /\ Len(list) = Len(counter) \/ Len(list) = n
    /\ Elements(list) \subseteq Keys(counter)
    /\ \A i, j \in 1..Len(list) :
          i < j =>
              \/ CountOf(counter, list[i]) > CountOf(counter, list[j])
              \/ /\ CountOf(counter, list[i]) = CountOf(counter, list[j])
                 /\ Discovery(counter, list[i]) < Discovery(counter, list[j])
    /\ \A t \in Keys(counter) \ Elements(list) :
          \A i \in 1..Len(list) : CountOf(counter, t) <= CountOf(counter, list[i])

\* the first row of the table with the usage u
FirstRowWith(u) ==
    CHOOSE r \in 1..Len(rows) : rows[r].usage = u /\ \A q \in 1..(r - 1) : rows[q].usage # u

(* C13: after a build each ranked category lists at most N words (100      *)
(* medicines, 50 diagnoses, 30 phrases, 20 usages) of its table in          *)
(* non-increasing frequency, words of equal frequency in the order of       *)
(* their discovery in the scan, and leaves out no word more frequent than   *)
(* a listed one.                                                            *)
C13_RankedCategories ==
    (index_status = "built") =>
        /\ RankedTopOf(categories.medicines, medicine_words, 100)
        /\ RankedTopOf(categories.diagnoses, diagnosis_words, 50)
        /\ RankedTopOf(categories.phrases, prescription_phrases, 30)
        /\ RankedTopOf(categories.usages, usage_words, 20)
        /\ \A a, b \in Keys(usage_words) :
              Discovery(usage_words, a) < Discovery(usage_words, b)
                  <=> FirstRowWith(a) < FirstRowWith(b)

\* twenty usages listed, one left out; a later-discovered usage ranks first
\* by frequency, and equal frequencies are listed in discovery order
C13_Witness ==
    /\ index_status = "built"
    /\ Len(usage_words) > 20
    /\ Len(categories.usages) = 20
    /\ \E i, j \in 1..Len(categories.usages) :
          /\ i < j
          /\ Discovery(usage_words, categories.usages[i])
                 > Discovery(usage_words, categories.usages[j])
    /\ \E i \in 1..(Len(categories.usages) - 1) :
          CountOf(usage_words, categories.usages[i])
              = CountOf(usage_words, categories.usages[i + 1])

----------------------------------------------------------------------------
(* C14: a run of load_words_from_database over the record sequence of an    *)
(* earlier run leaves the ordered word lists of all five categories, and    *)
(* all_words after a build, as the earlier build produced them.             *)
C14_Deterministic ==
    [][(index_status = "built" /\ index_status' = "built" /\ rows' = rows)
          => (categories' = categories /\ all_words' = all_words)]_vars

\* a second build over a table whose union has several terms
C14_Witness ==
    /\ index_status = "built"
    /\ refreshes >= 2
    /\ Len(categories.all) >= 3
    /\ Len(categories.medicines) >= 2

----------------------------------------------------------------------------
HasDiagnosis(row) == row.diagnosis # <<>>

HasPrescription(row) == row.prescription # <<>>

HasUsage(row) == row.usage # <<>>

\* the Counters of a scan of the rows of the table that pass the test
CountersOver(Test(_)) == ScanRows(SelectSeq(rows, Test), EmptyCounters)

(* C15: after a build every table is what the rows with a non-empty field   *)
(* of its kind give: a row with an empty diagnosis, prescription or usage   *)
(* adds nothing for that field, no table has an empty term, and the row's   *)
(* other fields and the other rows are counted.                             *)
C15_EmptyFieldsContributeNothing ==
    (index_status = "built") =>
        /\ diagnosis_words = CountersOver(HasDiagnosis).diagnosis
        /\ medicine_words = CountersOver(HasPrescription).medicine
        /\ prescription_phrases = CountersOver(HasPrescription).phrases
        /\ usage_words = CountersOver(HasUsage).usage
        /\ <<>> \notin Keys(diagnosis_words) \cup Keys(medicine_words)
                      \cup Keys(prescription_phrases) \cup Keys(usage_words)

\* a row without diagnosis whose usage is counted, and a row without usage
\* whose diagnosis is counted
C15_Witness ==
    /\ index_status = "built"
    /\ \E r \in 1..Len(rows) :
          /\ rows[r].diagnosis = <<>>
          /\ rows[r].usage \in Keys(usage_words)
    /\ \E r \in 1..Len(rows) :
          /\ rows[r].usage = <<>>
          /\ rows[r].diagnosis # <<>>
          /\ Shicheng \in Keys(diagnosis_words)
    /\ Keys(medicine_words) # {}

----------------------------------------------------------------------------
RowsWithUsage(t) == {r \in 1..Len(rows) : rows[r].usage = t}

(* C16: after a build the usage table counts, for every usage text that is  *)
(* not blank, the rows whose usage field is that whole text, and nothing    *)
(* else: a usage field that is empty or all whitespace gives no usage term  *)
(* and no term of the union.                                                *)
C16_UsageTerms ==
    (index_status = "built") =>
        /\ \A t \in Keys(usage_words) \cup {rows[r].usage : r \in 1..Len(rows)} :
              CountOf(usage_words, t) =
                  IF NonSpace(t) # {} THEN Cardinality(RowsWithUsage(t)) ELSE 0
        /\ \A t \in Elements(categories.usages) \cup Elements(categories.all) :
              NonSpace(t) # {}

\* the form with the blank usage was saved, and so was one with a usage
C16_Witness ==
    /\ index_status = "built"
    /\ \E r \in 1..Len(rows) :
          /\ rows[r].patient_name = <<"y">>
          /\ NonSpace(rows[r].usage) = {}
    /\ \E r \in 1..Len(rows) : rows[r].usage = <<"x", "y">>
    /\ categories.usages = << <<"x", "y">> >>

----------------------------------------------------------------------------
(* C17: a call of load_words_from_database that fails leaves the word       *)
(* lists of all five categories and all_words as they were before the call. *)
C17_FailedRefreshKeepsSnapshot ==
    [][(index_status' = "failed")
          => (categories' = categories /\ all_words' = all_words)]_vars

----------------------------------------------------------------------------
\* the row the form on screen is to be stored as, measured by position
TrimmedText(text) ==
    IF NonSpace(text) = {} THEN <<>>
    ELSE LET first == CHOOSE i \in NonSpace(text) : \A j \in NonSpace(text) : i <= j
             last == CHOOSE i \in NonSpace(text) : \A j \in NonSpace(text) : j <= i
         IN SubSeq(text, first, last)

SuccessBoxes == {"saved", "saved and printed"}

(* C18: a handler whose INSERT or DELETE was committed and whose vocabulary *)
(* refresh then failed still finishes: the save handlers show their success *)
(* message and clear the form, the delete handler reports success and       *)
(* reloads the list, and the table holds the new row, or lacks the deleted  *)
(* one.                                                                     *)
C18_FailedRefreshDoesNotBlock ==
    [][(rows' # rows /\ index_status' = "failed")
          => \/ /\ flow'.op \in {"save_only", "save_and_print"}
                /\ flow'.message \in SuccessBoxes
                /\ flow'.cleared
                /\ name_entry' = <<>>
                /\ diagnosis_entry' = <<>>
                /\ prescription_text' = <<>>
                /\ Len(rows') = Len(rows) + 1
                /\ SubSeq(rows', 1, Len(rows)) = rows
                /\ rows'[Len(rows')].patient_name = TrimmedText(name_entry)
                /\ rows'[Len(rows')].prescription = TrimmedText(prescription_text)
             \/ /\ flow'.op = "delete_prescription"
                /\ flow'.message = "deleted"
                /\ flow'.listed
                /\ \E i \in 1..Len(rows) :
                      rows' = [k \in 1..(Len(rows) - 1) |->
                                  IF k < i THEN rows[k] ELSE rows[k + 1]]]_vars

\* save_and_print after a commit and a failed refresh
C18_Witness ==
    /\ flow.op = "save_and_print"
    /\ flow.stored
    /\ flow.refresh = "failed"
    /\ flow.message \in SuccessBoxes
    /\ flow.cleared
    /\ Len(rows) >= 1

\* the same for save_only and for delete_prescription
C18_WitnessSaveOnly ==
    flow.op = "save_only" /\ flow.stored /\ flow.refresh = "failed" /\ flow.cleared

C18_WitnessDelete ==
    flow.op = "delete_prescription" /\ flow.stored /\ flow.refresh = "failed" /\ flow.listed

----------------------------------------------------------------------------
\* the Counters and the category lists of a scan of the table as it is now
FullRecomputation ==
    LET acc == ScanRows(rows, EmptyCounters)
    IN [counters |-> <<acc.medicine, acc.diagnosis, acc.phrases, acc.usage>>,
        ranked |-> <<most_common(acc.medicine, 100), most_common(acc.diagnosis, 50),
                     most_common(acc.phrases, 30), most_common(acc.usage, 20)>>,
        union |-> Keys(acc.medicine) \cup Keys(acc.diagnosis) \cup Keys(acc.usage)]

(* C19: whenever the last refresh succeeded, the vocabulary is the full     *)
(* recomputation over the rows the table holds now: no save or delete       *)
(* leaves the categories computed from an older table.                      *)
C19_IndexFollowsStore ==
    (index_status = "built") =>
        /\ counterVars = FullRecomputation.counters
        /\ <<categories.medicines, categories.diagnoses, categories.phrases,
              categories.usages>> = FullRecomputation.ranked
        /\ Elements(categories.all) = FullRecomputation.union
        /\ all_words = categories.all

\* after a delete that left a row, and after a save into a non-empty table
C19_Witness ==
    /\ index_status = "built"
    /\ flow.op = "delete_prescription"
    /\ flow.stored
    /\ Len(rows) >= 1
    /\ categories.medicines # <<>>

C19_WitnessSave ==
    /\ index_status = "built"
    /\ flow.op \in {"save_only", "save_and_print"}
    /\ flow.stored
    /\ Len(rows) >= 2

----------------------------------------------------------------------------
(* C20: save_only and save_and_print on a form whose patient name or        *)
(* prescription body is blank insert no row, do not rebuild the vocabulary, *)
(* generate no document (the estimator is not run) and leave the form as    *)
(* typed.                                                                   *)
C20_InvalidFormWritesNothing ==
    [][((save_only \/ save_and_print)
           /\ (NonSpace(name_entry) = {} \/ NonSpace(prescription_text) = {}))
          => /\ UNCHANGED <<indexVars, formVars, name_entry, estimateVars>>
             /\ ~flow'.stored
             /\ ~flow'.docx
             /\ ~flow'.cleared]_vars

\* a form with a blank name and a body was refused and is still on screen
C20_Witness ==
    /\ flow.op \in {"save_only", "save_and_print"}
    /\ flow.message = "warning"
    /\ NonSpace(name_entry) = {}
    /\ NonSpace(prescription_text) # {}

\* the same for a blank body
C20_WitnessBody ==
    /\ flow.op \in {"save_only", "save_and_print"}
    /\ flow.message = "warning"
    /\ NonSpace(name_entry) # {}
    /\ NonSpace(prescription_text) = {}

----------------------------------------------------------------------------
(* C21: when the INSERT of save_to_database fails, save_only and            *)
(* save_and_print show the error and stop: the table has no new row, the    *)
(* vocabulary is not rebuilt, no document is generated (the estimator is    *)
(* not run), nothing is printed, no success message is shown and the form   *)
(* stays as typed.                                                          *)
C21_FailedInsertAborts ==
    [][((save_only \/ save_and_print) /\ flow'.message = "error")
          => /\ rows' = rows
             /\ UNCHANGED <<indexVars, formVars, name_entry, estimateVars, printVars>>
             /\ ~flow'.stored
             /\ flow'.refresh = "none"
             /\ ~flow'.docx
             /\ flow'.asked = "none"
             /\ flow'.message \notin SuccessBoxes
             /\ ~flow'.cleared]_vars

\* a complete form whose INSERT failed is still on screen, after an earlier
\* save had put a row in the table
C21_Witness ==
    /\ flow.op \in {"save_only", "save_and_print"}
    /\ flow.message = "error"
    /\ NonSpace(name_entry) # {}
    /\ NonSpace(prescription_text) # {}
    /\ Len(rows) = 1

----------------------------------------------------------------------------
\* table is `before` with one row appended
Grown(before, table) ==
    /\ Len(table) = Len(before) + 1
    /\ \A j \in 1..Len(before) : table[j] = before[j]

\* table is `before` with one row taken out, the others as they were
Shrunk(before, table) ==
    /\ Len(table) = Len(before) - 1
    /\ \E i \in 1..Len(before) :
          /\ \A j \in 1..(i - 1) : table[j] = before[j]
          /\ \A j \in i..Len(table) : table[j] = before[j + 1]

ReprintOps == {"print_selected_prescription", "print_prescription_by_id"}

(* C22: print_selected_prescription and print_prescription_by_id leave the  *)
(* table as it is; whenever the table changes, either a save handler has    *)
(* appended one row and all earlier rows are as they were, or               *)
(* delete_prescription has taken one row out and the others are as they     *)
(* were.                                                                    *)
C22_ReprintLeavesStore ==
    [][/\ (   (\E i \in 0..Len(rows) : print_selected_prescription(i))
           \/ (\E i \in 1..(Len(rows) + 1) : print_prescription_by_id(i)))
          => rows' = rows
       /\ rows' # rows
          => \/ /\ Grown(rows, rows')
                /\ flow'.op \in {"save_only", "save_and_print"}
                /\ flow'.stored
             \/ /\ Shrunk(rows, rows')
                /\ flow'.op = "delete_prescription"
                /\ flow'.stored]_vars

\* a stored prescription was loaded into the form and its document generated
C22_Witness ==
    /\ flow.op \in ReprintOps
    /\ flow.filled
    /\ flow.docx
    /\ Len(rows) >= 1
    /\ name_entry = rows[1].patient_name

----------------------------------------------------------------------------
----------------------------------------------------------------------------
MethodOrder == <<"default printer", "powershell", "shell execute">>

(* C24: a call of print_docx with a printer selected has tried the methods  *)
(* in the order default-printer switch, PowerShell, ShellExecute, a later   *)
(* one only after every earlier one failed, and none after one that worked; *)
(* without a printer it has made the one plain attempt.  Exactly when every *)
(* attempt failed, the error box was shown and the file was then opened (an *)
(* open that fails is passed over).                                         *)
C24_PrintFallback ==
    print_job.called =>
        LET n == Len(print_job.tried)
        IN /\ n >= 1
           /\ Len(print_job.results) = n
           /\ IF print_job.printer_name # ""
              THEN print_job.tried = SubSeq(MethodOrder, 1, n)
              ELSE print_job.tried = <<"startfile">>
           /\ \A k \in 1..(n - 1) : ~print_job.results[k]
           /\ ~print_job.results[n] => n = (IF print_job.printer_name # "" THEN 3 ELSE 1)
           /\ print_job.success = print_job.results[n]
           /\ print_job.error = ~print_job.success
           /\ print_job.error = (print_job.opened \in {"opened", "failed"})
           /\ ~print_job.error => print_job.opened = "none"

\* all three methods failed for the selected printer
C24_Witness ==
    /\ print_job.called
    /\ print_job.printer_name = "pos58"
    /\ print_job.tried = MethodOrder
    /\ print_job.error
    /\ print_job.opened = "opened"

\* the plain attempt without a printer failed
C24_WitnessNoPrinter ==
    /\ print_job.called
    /\ print_job.printer_name = ""
    /\ print_job.error

\* the second method worked after the first had failed
C24_WitnessSecond ==
    /\ print_job.called
    /\ print_job.results = <<FALSE, TRUE>>

----------------------------------------------------------------------------
\* the paragraphs or lines that carry content: no rule, no blank line
IsContent(l) == l.kind \notin {"rule", "blank"}

Content(doc) == SelectSeq(doc, IsContent)

(* C25: the text file written with a document has the content of the        *)
(* document: the same clinic name, address and clinic phone lines, the same *)
(* patient lines, the same prescription lines up to the cap of 15 and the   *)
(* truncation marker, the same usage, doctor, phone and license lines, in   *)
(* the same order.                                                          *)
C25_TextMirrorsDocument ==
    receipt.made => Content(receipt.txt) = Content(receipt.docx)

----------------------------------------------------------------------------
(* C26: a save_settings that ends with the warning for a malformed          *)
(* parameter leaves every field of the settings object and the settings     *)
(* file as they were.                                                       *)
C26_RejectedCommitChangesNothing ==
    [][(save_settings /\ flow'.message = "warning")
          => /\ settings' = settings
             /\ settings_file' = settings_file]_vars

----------------------------------------------------------------------------
(* C27: the enabled flag of the completion panel equals                     *)
(* settings.smart_completion_enabled in every state.                        *)
C27_PanelFollowsSettings ==
    enabled = settings.smart_completion_enabled

----------------------------------------------------------------------------
DateNumber(d) == d[1] * 10000 + d[2] * 100 + d[3]

\* the month before that of date d, as <<year, month>>
MonthBefore(d) == IF d[2] = 1 THEN <<d[1] - 1, 12>> ELSE <<d[1], d[2] - 1>>

\* the month three months before that of date d
ThreeMonthsBefore(d) == IF d[2] > 3 THEN <<d[1], d[2] - 3>> ELSE <<d[1] - 1, d[2] + 9>>

(* C28: on every day, after the button for last month or for the recent     *)
(* three months the handler has not raised, the entries hold a start date   *)
(* of the calendar not later than the end date: the first and the last day  *)
(* of the previous month, or the same day of the month three months ago and *)
(* today.                                                                   *)
C28_DateRangeValid ==
    flow.op \in {"last_month", "recent_3_months"} =>
        /\ date_range.status = "set"
        /\ IsDate(date_range.start_date)
        /\ IsDate(date_range.end_date)
        /\ DateNumber(date_range.start_date) <= DateNumber(date_range.end_date)
        /\ flow.op = "last_month" =>
              LET ym == MonthBefore(now)
              IN /\ date_range.start_date = <<ym[1], ym[2], 1>>
                 /\ date_range.end_date = <<ym[1], ym[2], DaysIn(ym[1], ym[2])>>
        /\ flow.op = "recent_3_months" =>
              LET ym == ThreeMonthsBefore(now)
              IN /\ date_range.start_date = <<ym[1], ym[2], now[3]>>
                 /\ date_range.end_date = now

----------------------------------------------------------------------------
(* C29: after save_and_print the message that the prescription was saved    *)
(* and printed has been shown only if the user answered yes to the print    *)
(* question and print_docx ran without showing the print error.             *)
C29_PrintedMessageOnlyAfterPrint ==
    (flow.op = "save_and_print" /\ flow.message = "saved and printed")
        => /\ flow.asked = "yes"
           /\ print_job.called
           /\ ~print_job.error

----------------------------------------------------------------------------
C30_WitnessPrinted ==
    /\ print_job.called
    /\ print_job.switched
    /\ print_job.results[1]
    /\ print_job.printer_name # default_printer

====
